---- MODULE Spec2Model ----
(***************************************************************************)
(* A model of scripts/compare_experiments.py: the metrics extraction of    *)
(* one task-graph store (extract_metrics), the safe-division primitive     *)
(* (_safe_div) and the two-run delta analysis of generate_markdown.        *)
(*                                                                         *)
(* Numbers.  Python ints are TLA+ integers.  Python floats are exact       *)
(* rationals [n |-> numerator, d |-> denominator], d > 0, in lowest terms; *)
(* round(x, k) is round-half-to-even at k decimals on the exact value.     *)
(* SQL NULL and Python None are the empty tuple; a present value v is the  *)
(* one-element tuple <<v>>.                                                *)
(***************************************************************************)
EXTENDS Integers, Sequences, FiniteSets, TLC

VARIABLES
    db_exists,   \* os.path.exists(db_path)
    tasks,       \* rows of the tasks table, in rowid order
    tables,      \* the optional interval tables: name -> NULL or <<[cols, rows]>>
    clock,       \* the wall clock, in seconds (strftime('%s','now'))
    pc,          \* position inside the function or main being run
    conn,        \* the sqlite3 connection: "none", "open" or "closed"
    seq_table,   \* local seq_table of extract_metrics (NULL or <<name>>)
    result,      \* local result of extract_metrics (an ExperimentResults);
                 \* the locals start, completed of wait_for_completion
    now_used,    \* history: the 'now' (ms) each interval query evaluated
    results,     \* generate_markdown's argument: the list of snapshots;
                 \* the results list of install_all / uninstall_all
    delta_rows,  \* generate_markdown's local delta_rows
    args,        \* the arguments of the call or of the command line
    ret,         \* the return value or exit status (NULL before the return)
    fs,          \* the files beside the store: sources, targets, outputs
    steps        \* history: the steps main has carried out, in order

vars == <<db_exists, tasks, tables, clock, pc, conn, seq_table, result,
          now_used, results, delta_rows, args, ret, fs, steps>>

---------------------------------------------------------------------------
(* NULL / None *)

NULL == <<>>

Some(v) == <<v>>

IsNull(x) == x = <<>>

Val(x) == x[1]

\* Python's `x or 0` on an optional integer
OrZero(x) == IF IsNull(x) THEN 0 ELSE Val(x)

\* no file beside the store
NoFiles == [files |-> {}, locked |-> {}, readable |-> TRUE]

---------------------------------------------------------------------------
(* Exact rational arithmetic for Python floats *)

Abs(i) == IF i < 0 THEN -i ELSE i

RECURSIVE Gcd(_, _)
Gcd(a, b) == IF b = 0 THEN a ELSE Gcd(b, a % b)

\* the rational n/d (d # 0) in lowest terms with a positive denominator
Norm(n, d) ==
    LET g == Gcd(Abs(n), Abs(d))
        s == IF d < 0 THEN -1 ELSE 1
    IN  [n |-> (s * n) \div g, d |-> (s * d) \div g]

Q(i) == [n |-> i, d |-> 1]

Zero == Q(0)

QAdd(a, b) == Norm(a.n * b.d + b.n * a.d, a.d * b.d)

QSub(a, b) == Norm(a.n * b.d - b.n * a.d, a.d * b.d)

QMul(a, b) == Norm(a.n * b.n, a.d * b.d)

\* a / b for b # 0
QDiv(a, b) == Norm(a.n * b.d, a.d * b.n)

QAbs(a) == [n |-> Abs(a.n), d |-> a.d]

QLt(a, b) == a.n * b.d < b.n * a.d

QLe(a, b) == a.n * b.d <= b.n * a.d

Pow10(k) == IF k = 0 THEN 1 ELSE IF k = 1 THEN 10 ELSE IF k = 2 THEN 100
            ELSE IF k = 3 THEN 1000 ELSE 10000

\* Python round(x, k): the nearest multiple of 10^-k, ties to the even one
Round(x, k) ==
    LET v == x.n * Pow10(k)
        q == v \div x.d
        r == v % x.d
        m == IF 2 * r > x.d THEN q + 1
             ELSE IF 2 * r < x.d THEN q
             ELSE IF q % 2 = 0 THEN q ELSE q + 1
    IN  Norm(m, Pow10(k))

---------------------------------------------------------------------------
(* _safe_div *)

\* Python truthiness of a denominator: None and 0 are false
Truthy(denominator) == ~IsNull(denominator) /\ Val(denominator).n # 0

\* _safe_div guarding with `denominator > 0` instead of truthiness
SafeDivPositiveOnly(numerator, denominator, default) ==
    IF ~IsNull(denominator) /\ Val(denominator).n > 0
    THEN QDiv(numerator, Val(denominator)) ELSE default

\* numerator, default: rationals; denominator: NULL or <<rational>>
_safe_div(numerator, denominator, default) ==
    IF Truthy(denominator) THEN QDiv(numerator, Val(denominator)) ELSE default

\* the call sites' spelling: integer operands, default 0.0
SafeDivInt(numerator, denominator) ==
    _safe_div(Q(numerator), Some(Q(denominator)), Zero)

---------------------------------------------------------------------------
(* SQL aggregates over a column: a sequence of optional integers *)

RECURSIVE SumInts(_)
SumInts(s) == IF s = <<>> THEN 0 ELSE Head(s) + SumInts(Tail(s))

NonNull(col) == SelectSeq(col, LAMBDA x : ~IsNull(x))

Vals(col) == [i \in 1..Len(NonNull(col)) |-> Val(NonNull(col)[i])]

\* SUM(col): NULL when no row contributes a non-NULL value
SqlSum(col) == IF NonNull(col) = <<>> THEN NULL ELSE Some(SumInts(Vals(col)))

\* AVG(col): NULL when no row contributes a non-NULL value
SqlAvg(col) ==
    IF NonNull(col) = <<>> THEN NULL
    ELSE Some(Norm(SumInts(Vals(col)), Len(NonNull(col))))

Range(s) == {s[i] : i \in 1..Len(s)}

SqlMin(col) ==
    IF NonNull(col) = <<>> THEN NULL
    ELSE Some(CHOOSE v \in Range(Vals(col)) : \A w \in Range(Vals(col)) : v <= w)

SqlMax(col) ==
    IF NonNull(col) = <<>> THEN NULL
    ELSE Some(CHOOSE v \in Range(Vals(col)) : \A w \in Range(Vals(col)) : v >= w)

Coalesce(x, dflt) == IF IsNull(x) THEN dflt ELSE Val(x)

\* SUM(CASE WHEN status = s THEN 1 ELSE 0 END)
CountStatus(rows, s) ==
    SqlSum([i \in 1..Len(rows) |-> Some(IF rows[i].status = s THEN 1 ELSE 0)])

\* WHERE deleted_at IS NULL
Live(rows) == SelectSeq(rows, LAMBDA t : IsNull(t.deleted_at))

---------------------------------------------------------------------------
(* The snapshot: ExperimentResults and its groups, with the dataclass     *)
(* defaults                                                                *)

TimeMetrics ==
    [total_duration_ms |-> 0, avg_task_time_ms |-> Zero,
     median_task_time_ms |-> Zero, min_task_time_ms |-> 0,
     max_task_time_ms |-> 0, total_working_ms |-> 0, total_blocked_ms |-> 0,
     blocking_ratio_pct |-> Zero, avg_queue_wait_ms |-> Zero]

TokenMetrics ==
    [tokens_in |-> 0, tokens_out |-> 0, tokens_cached |-> 0,
     tokens_thinking |-> 0, tokens_image |-> 0, tokens_audio |-> 0,
     metric_6 |-> 0, metric_7 |-> 0, total_billable |-> 0,
     cache_hit_rate_pct |-> Zero, output_ratio |-> Zero,
     thinking_overhead |-> Zero]

CostMetrics ==
    [total_cost_usd |-> Zero, avg_cost_per_task |-> Zero,
     cost_per_completed_task |-> Zero, cost_per_point |-> Zero]

TaskDistribution ==
    [total_tasks |-> 0, completed |-> 0, failed |-> 0, cancelled |-> 0,
     pending |-> 0, working |-> 0, completion_rate_pct |-> Zero,
     failure_rate_pct |-> Zero, total_points |-> 0, completed_points |-> 0]

QualityMetrics ==
    [rework_count |-> 0, rework_rate_pct |-> Zero, avg_rework_cycles |-> Zero,
     first_pass_success_pct |-> Zero]

ThroughputMetrics ==
    [tasks_per_hour |-> Zero, points_per_hour |-> Zero,
     avg_tasks_per_agent_hour |-> Zero]

ExperimentResults(label) ==
    [label |-> label, agent_count |-> 0, time |-> TimeMetrics,
     tokens |-> TokenMetrics, cost |-> CostMetrics, tasks |-> TaskDistribution,
     quality |-> QualityMetrics, throughput |-> ThroughputMetrics,
     agents |-> <<>>]

---------------------------------------------------------------------------
(* extract_metrics, section 1: task distribution *)

\* the aggregate row of the distribution query
DistRow(rows) ==
    LET live == Live(rows) IN
    [total |-> Len(live),
     completed |-> CountStatus(live, "completed"),
     failed |-> CountStatus(live, "failed"),
     cancelled |-> CountStatus(live, "cancelled"),
     pending |-> CountStatus(live, "pending"),
     working |-> CountStatus(live, "working"),
     total_points |->
        Coalesce(SqlSum([i \in 1..Len(live) |-> live[i].points]), 0),
     completed_points |->
        Coalesce(SqlSum([i \in 1..Len(live) |->
            IF live[i].status = "completed" THEN live[i].points ELSE Some(0)]), 0)]

\* td.completed + td.failed + td.working on None operands: TypeError
DistRaises(row) ==
    IsNull(row.completed) \/ IsNull(row.failed) \/ IsNull(row.working)

\* lines 205-217, for a row on which the addition does not raise
FillDistribution(row) ==
    LET completed == Val(row.completed)
        failed == Val(row.failed)
        working == Val(row.working)
        claimed_total == completed + failed + working
    IN  [total_tasks |-> row.total,
         completed |-> completed,
         failed |-> failed,
         cancelled |-> OrZero(row.cancelled),
         pending |-> OrZero(row.pending),
         working |-> working,
         completion_rate_pct |->
            Round(SafeDivInt(completed * 100, claimed_total), 1),
         failure_rate_pct |->
            Round(SafeDivInt(failed * 100, claimed_total), 1),
         total_points |-> row.total_points,
         completed_points |-> row.completed_points]

---------------------------------------------------------------------------
(* extract_metrics, section 2: time metrics *)

\* MIN(time_actual_ms) in place of the minimum over the positive durations
TimeRowMinOverAll(rows) ==
    LET live == Live(rows) IN
    [first_created |-> SqlMin([i \in 1..Len(live) |-> live[i].created_at]),
     last_completed |-> SqlMax([i \in 1..Len(live) |-> live[i].completed_at]),
     avg_time |-> SqlAvg([i \in 1..Len(live) |-> live[i].time_actual_ms]),
     min_time |-> SqlMin([i \in 1..Len(live) |-> live[i].time_actual_ms]),
     max_time |-> SqlMax([i \in 1..Len(live) |-> live[i].time_actual_ms])]

\* the aggregate row of lines 222-233
TimeRow(rows) ==
    LET live == Live(rows) IN
    [first_created |-> SqlMin([i \in 1..Len(live) |-> live[i].created_at]),
     last_completed |-> SqlMax([i \in 1..Len(live) |-> live[i].completed_at]),
     avg_time |-> SqlAvg([i \in 1..Len(live) |-> live[i].time_actual_ms]),
     min_time |-> SqlMin([i \in 1..Len(live) |->
        IF ~IsNull(live[i].time_actual_ms) /\ Val(live[i].time_actual_ms) > 0
        THEN live[i].time_actual_ms ELSE NULL]),
     max_time |-> SqlMax([i \in 1..Len(live) |-> live[i].time_actual_ms])]

\* lines 235-242 applied to the time group tm
FillTime(tm, row) ==
    LET first == row.first_created
        last == row.last_completed
    IN  [tm EXCEPT
          !.total_duration_ms =
              IF OrZero(first) # 0 /\ OrZero(last) # 0
              THEN Val(last) - Val(first) ELSE @,
          !.avg_task_time_ms =
              Round(IF IsNull(row.avg_time) THEN Zero ELSE Val(row.avg_time), 1),
          !.min_task_time_ms = OrZero(row.min_time),
          !.max_task_time_ms = OrZero(row.max_time)]

\* SELECT time_actual_ms ... WHERE deleted_at IS NULL AND time_actual_ms > 0
\* ORDER BY time_actual_ms
ActualTimes(rows) ==
    LET live == Live(rows)
        pos == SelectSeq(live, LAMBDA t :
                   ~IsNull(t.time_actual_ms) /\ Val(t.time_actual_ms) > 0)
    IN  SortSeq([i \in 1..Len(pos) |-> Val(pos[i].time_actual_ms)],
                LAMBDA a, b : a < b)

\* the upper of the two central elements in place of their average
MedianUpperMiddle(actual_times) ==
    IF actual_times = <<>> THEN Zero
    ELSE Q(actual_times[Len(actual_times) \div 2 + 1])

\* lines 255-260: the median of the sorted list, 0.0 (the default) when empty
Median(actual_times) ==
    LET mid == Len(actual_times) \div 2 IN
    IF actual_times = <<>> THEN Zero
    ELSE IF Len(actual_times) % 2 = 0
         THEN Norm(actual_times[mid] + actual_times[mid + 1], 2)
         ELSE Q(actual_times[mid + 1])

---------------------------------------------------------------------------
(* The schema adapter and the interval queries *)

SeqCandidates == <<"task_sequence", "task_state_sequence">>

_table_exists(tbls, name) == ~IsNull(tbls[name])

\* the candidates tried in the opposite order
SequenceTableNewestFirst(tbls) ==
    IF _table_exists(tbls, SeqCandidates[2]) THEN Some(SeqCandidates[2])
    ELSE IF _table_exists(tbls, SeqCandidates[1]) THEN Some(SeqCandidates[1])
    ELSE NULL

\* the first candidate that exists, or None
_get_sequence_table(tbls) ==
    IF _table_exists(tbls, SeqCandidates[1]) THEN Some(SeqCandidates[1])
    ELSE IF _table_exists(tbls, SeqCandidates[2]) THEN Some(SeqCandidates[2])
    ELSE NULL

\* status_col = "status" if "status" in col_names else "event"
StatusCol(tbls, name) ==
    IF "status" \in Val(tbls[name]).cols THEN "status" ELSE "event"

\* the rows of table name whose column col holds one of labels
RowsWhere(tbls, name, col, labels) ==
    SelectSeq(Val(tbls[name]).rows, LAMBDA r : r[col] \in labels)

\* COALESCE(SUM(COALESCE(end_timestamp, now) - timestamp), 0)
IntervalSum(rows, now) ==
    Coalesce(SqlSum([i \in 1..Len(rows) |->
        Some(Coalesce(rows[i].end_timestamp, now) - rows[i].timestamp)]), 0)

\* CAST(strftime('%s','now') AS INTEGER)*1000
NowMs(clk) == clk * 1000

\* lines 270-279
TotalWorkingMs(tbls, name, now) ==
    IntervalSum(RowsWhere(tbls, name, StatusCol(tbls, name), {"working"}), now)

\* lines 281-290
TotalBlockedMs(tbls, name, now) ==
    IntervalSum(RowsWhere(tbls, name, StatusCol(tbls, name),
                          {"pending", "assigned"}), now)

\* the blocked time as a percentage of the working time
BlockingRatioOfWorking(total_working_ms, total_blocked_ms) ==
    Round(SafeDivInt(total_blocked_ms * 100, total_working_ms), 1)

\* lines 292-295
BlockingRatio(total_working_ms, total_blocked_ms) ==
    Round(SafeDivInt(total_blocked_ms * 100,
                     total_working_ms + total_blocked_ms), 1)

\* lines 298-305
AvgQueueWait(rows) ==
    LET both == SelectSeq(Live(rows), LAMBDA t :
                    ~IsNull(t.started_at) /\ ~IsNull(t.created_at))
        avg == SqlAvg([i \in 1..Len(both) |->
                    Some(Val(both[i].started_at) - Val(both[i].created_at))])
    IN  Round(IF IsNull(avg) THEN Zero ELSE Val(avg), 1)

---------------------------------------------------------------------------
(* extract_metrics, section 3: token metrics *)

\* COALESCE(SUM(metric_k), 0) over the non-deleted rows, k = 0..7
MetricSum(rows, k) ==
    LET live == Live(rows) IN
    Coalesce(SqlSum([i \in 1..Len(live) |-> live[i].metric[k + 1]]), 0)

\* cached tokens billed like input tokens
FillTokensBillingCached(rows) ==
    LET tokens_in == MetricSum(rows, 0)
        tokens_out == MetricSum(rows, 1)
        tokens_cached == MetricSum(rows, 2)
        tokens_thinking == MetricSum(rows, 3)
    IN  [tokens_in |-> tokens_in,
         tokens_out |-> tokens_out,
         tokens_cached |-> tokens_cached,
         tokens_thinking |-> tokens_thinking,
         tokens_image |-> MetricSum(rows, 4),
         tokens_audio |-> MetricSum(rows, 5),
         metric_6 |-> MetricSum(rows, 6),
         metric_7 |-> MetricSum(rows, 7),
         total_billable |->
            tokens_in + tokens_out + tokens_thinking + tokens_cached,
         cache_hit_rate_pct |->
            Round(SafeDivInt(tokens_cached * 100, tokens_in + tokens_cached),
                  1),
         output_ratio |-> Round(SafeDivInt(tokens_out, tokens_in), 3),
         thinking_overhead |->
            Round(SafeDivInt(tokens_thinking, tokens_out), 3)]

\* one guard for all three ratios: each is 0 unless there are input tokens
FillTokensGuardedByInput(rows) ==
    LET tokens_in == MetricSum(rows, 0)
        tokens_out == MetricSum(rows, 1)
        tokens_cached == MetricSum(rows, 2)
        tokens_thinking == MetricSum(rows, 3)
        guarded(num, den) ==
            IF tokens_in = 0 THEN Zero ELSE SafeDivInt(num, den)
    IN  [tokens_in |-> tokens_in,
         tokens_out |-> tokens_out,
         tokens_cached |-> tokens_cached,
         tokens_thinking |-> tokens_thinking,
         tokens_image |-> MetricSum(rows, 4),
         tokens_audio |-> MetricSum(rows, 5),
         metric_6 |-> MetricSum(rows, 6),
         metric_7 |-> MetricSum(rows, 7),
         total_billable |-> tokens_in + tokens_out + tokens_thinking,
         cache_hit_rate_pct |->
            Round(guarded(tokens_cached * 100, tokens_in + tokens_cached), 1),
         output_ratio |-> Round(guarded(tokens_out, tokens_in), 3),
         thinking_overhead |-> Round(guarded(tokens_thinking, tokens_out), 3)]

\* lines 326-340
FillTokens(rows) ==
    LET tokens_in == MetricSum(rows, 0)
        tokens_out == MetricSum(rows, 1)
        tokens_cached == MetricSum(rows, 2)
        tokens_thinking == MetricSum(rows, 3)
    IN  [tokens_in |-> tokens_in,
         tokens_out |-> tokens_out,
         tokens_cached |-> tokens_cached,
         tokens_thinking |-> tokens_thinking,
         tokens_image |-> MetricSum(rows, 4),
         tokens_audio |-> MetricSum(rows, 5),
         metric_6 |-> MetricSum(rows, 6),
         metric_7 |-> MetricSum(rows, 7),
         total_billable |-> tokens_in + tokens_out + tokens_thinking,
         cache_hit_rate_pct |->
            Round(SafeDivInt(tokens_cached * 100, tokens_in + tokens_cached), 1),
         output_ratio |-> Round(SafeDivInt(tokens_out, tokens_in), 3),
         thinking_overhead |-> Round(SafeDivInt(tokens_thinking, tokens_out), 3)]

---------------------------------------------------------------------------
(* extract_metrics, section 4: cost metrics *)

RECURSIVE SumQ(_)
\* the sum of the non-NULL entries of a column of optional rationals
SumQ(col) ==
    IF col = <<>> THEN Zero
    ELSE IF IsNull(Head(col)) THEN SumQ(Tail(col))
    ELSE QAdd(Val(Head(col)), SumQ(Tail(col)))

\* COALESCE(SUM(cost_usd), 0.0)
CostSum(rows) == SumQ([i \in 1..Len(rows) |-> rows[i].cost_usd])

\* lines 345-363
FillCost(rows) ==
    LET live == Live(rows)
        total_cost == CostSum(live)
        completed == CountStatus(live, "completed")
        pts == Coalesce(SqlSum([i \in 1..Len(live) |->
                   IF live[i].status = "completed" THEN live[i].points
                   ELSE Some(0)]), 0)
    IN  [total_cost_usd |-> Round(total_cost, 4),
         avg_cost_per_task |->
            Round(_safe_div(total_cost, Some(Q(Len(live))), Zero), 4),
         cost_per_completed_task |->
            Round(_safe_div(total_cost,
                            IF IsNull(completed) THEN NULL
                            ELSE Some(Q(Val(completed))), Zero), 4),
         cost_per_point |-> Round(_safe_div(total_cost, Some(Q(pts)), Zero), 4)]

---------------------------------------------------------------------------
(* extract_metrics, section 5: quality / rework metrics *)

\* SELECT task_id, COUNT(*) ... WHERE status_col = 'working' GROUP BY task_id:
\* the working_periods of each task that has a working row
WorkingPeriods(tbls, name) ==
    LET rows == RowsWhere(tbls, name, StatusCol(tbls, name), {"working"})
        ids == {rows[i].task_id : i \in 1..Len(rows)}
    IN  [t \in ids |-> Cardinality({i \in 1..Len(rows) : rows[i].task_id = t})]

RECURSIVE SumOver(_, _)
SumOver(f, S) ==
    IF S = {} THEN 0
    ELSE LET x == CHOOSE y \in S : TRUE IN f[x] + SumOver(f, S \ {x})

\* FillQuality counting a task as reworked from its first working interval
FillQualityReworkedAtOne(tbls, name) ==
    LET rework_rows == WorkingPeriods(tbls, name)
        total_with_work == Cardinality(DOMAIN rework_rows)
        reworked_ids == {t \in DOMAIN rework_rows : rework_rows[t] >= 1}
        reworked == Cardinality(reworked_ids)
    IN  [rework_count |-> reworked,
         rework_rate_pct |->
            Round(SafeDivInt(reworked * 100, total_with_work), 1),
         avg_rework_cycles |->
            Round(SafeDivInt(SumOver(rework_rows, reworked_ids), reworked), 1),
         first_pass_success_pct |->
            Round(SafeDivInt((total_with_work - reworked) * 100,
                             total_with_work), 1)]

\* lines 382-396
FillQuality(tbls, name) ==
    LET rework_rows == WorkingPeriods(tbls, name)
        total_with_work == Cardinality(DOMAIN rework_rows)
        reworked_ids == {t \in DOMAIN rework_rows : rework_rows[t] > 1}
        reworked == Cardinality(reworked_ids)
    IN  [rework_count |-> reworked,
         rework_rate_pct |->
            Round(SafeDivInt(reworked * 100, total_with_work), 1),
         avg_rework_cycles |->
            Round(SafeDivInt(SumOver(rework_rows, reworked_ids), reworked), 1),
         first_pass_success_pct |->
            Round(SafeDivInt((total_with_work - reworked) * 100,
                             total_with_work), 1)]

---------------------------------------------------------------------------
(* extract_metrics, section 6: throughput *)

MsPerHour == 3600000

\* duration_hours = _safe_div(tm.total_duration_ms, 3_600_000)
DurationHours(total_duration_ms) == SafeDivInt(total_duration_ms, MsPerHour)

\* lines 401-404
FillThroughput(tp, tm, td) ==
    LET duration_hours == DurationHours(tm.total_duration_ms) IN
    [tp EXCEPT
      !.tasks_per_hour =
          Round(_safe_div(Q(td.completed), Some(duration_hours), Zero), 2),
      !.points_per_hour =
          Round(_safe_div(Q(td.completed_points), Some(duration_hours), Zero), 2)]

---------------------------------------------------------------------------
(* extract_metrics, section 7: per-worker stats *)

\* one AgentStats per worker, from the rows of that worker
AgentStats(worker_id, rows) ==
    [worker_id |-> worker_id,
     tasks_completed |-> Val(CountStatus(rows, "completed")),
     tasks_failed |-> Val(CountStatus(rows, "failed")),
     total_cost_usd |-> Round(CostSum(rows), 4),
     total_time_ms |->
        Coalesce(SqlSum([i \in 1..Len(rows) |-> rows[i].time_actual_ms]), 0),
     tokens_in |-> MetricSum(rows, 0),
     tokens_out |-> MetricSum(rows, 1)]

RECURSIVE SetToSeq(_)
\* the elements of a set of integers in ascending order
SetToSeq(S) ==
    IF S = {} THEN <<>>
    ELSE LET m == CHOOSE x \in S : \A y \in S : x <= y
         IN  <<m>> \o SetToSeq(S \ {m})

\* the groups in the order of their worker_id, not of their cost
AgentRowsByWorkerId(rows) ==
    LET live == SelectSeq(Live(rows), LAMBDA t : ~IsNull(t.worker_id))
        ids == SetToSeq({Val(live[i].worker_id) : i \in 1..Len(live)})
    IN  [j \in 1..Len(ids) |->
            AgentStats(ids[j],
                       SelectSeq(live, LAMBDA t : Val(t.worker_id) = ids[j]))]

\* lines 409-437: GROUP BY worker_id ORDER BY cost DESC
AgentRows(rows) ==
    LET live == SelectSeq(Live(rows), LAMBDA t : ~IsNull(t.worker_id))
        ids == SetToSeq({Val(live[i].worker_id) : i \in 1..Len(live)})
        groups == [j \in 1..Len(ids) |->
                     [id |-> ids[j],
                      cost |-> CostSum(SelectSeq(live,
                                  LAMBDA t : Val(t.worker_id) = ids[j]))]]
        sorted == SortSeq(groups, LAMBDA a, b :
                     QLt(b.cost, a.cost) \/ (a.cost = b.cost /\ a.id < b.id))
    IN  [j \in 1..Len(sorted) |->
            AgentStats(sorted[j].id,
                       SelectSeq(live, LAMBDA t : Val(t.worker_id) = sorted[j].id))]

\* the per-agent rate computed whenever there is a worker, whatever the
\* duration
AgentThroughputAnyDuration(tp, tm, td, agent_count) ==
    LET duration_hours == DurationHours(tm.total_duration_ms) IN
    IF agent_count > 0
    THEN [tp EXCEPT !.avg_tasks_per_agent_hour =
             Round(_safe_div(Q(td.completed),
                             Some(QMul(duration_hours, Q(agent_count))),
                             Zero), 2)]
    ELSE tp

\* lines 441-445
AgentThroughput(tp, tm, td, agent_count) ==
    LET duration_hours == DurationHours(tm.total_duration_ms) IN
    IF agent_count > 0 /\ QLt(Zero, duration_hours)
    THEN [tp EXCEPT !.avg_tasks_per_agent_hour =
             Round(_safe_div(Q(td.completed),
                             Some(QMul(duration_hours, Q(agent_count))), Zero), 2)]
    ELSE tp

---------------------------------------------------------------------------
(* extract_metrics as a process: one action per query of the function      *)

NoNow == [working |-> NULL, blocked |-> NULL]

\* lines 174-176: the store does not exist, sys.exit(1)
ExitMissing ==
    /\ pc = "start"
    /\ ~db_exists
    /\ pc' = "exit"
    /\ UNCHANGED <<db_exists, tasks, tables, clock, conn, seq_table, result,
                   now_used, results, delta_rows, args, ret, fs, steps>>

\* the label argument of the call: the label main pairs with the store, "run"
\* when extract_metrics is called on its own
CallLabel ==
    IF ~IsNull(args) /\ "labels" \in DOMAIN Val(args)
    THEN Val(args).labels[Val(args).i] ELSE "run"

\* lines 178-184: connect read-only, build the default result, resolve the
\* sequence table
Connect ==
    /\ pc = "start"
    /\ db_exists
    /\ conn' = "open"
    /\ result' = ExperimentResults(CallLabel)
    /\ seq_table' = _get_sequence_table(tables)
    /\ pc' = "distribution"
    /\ UNCHANGED <<db_exists, tasks, tables, clock, now_used, results,
                   delta_rows, args, ret, fs, steps>>

\* lines 189-217, the aggregate row holds counts
Distribution ==
    /\ pc = "distribution"
    /\ ~DistRaises(DistRow(tasks))
    /\ result' = [result EXCEPT !.tasks = FillDistribution(DistRow(tasks))]
    /\ pc' = "time"
    /\ UNCHANGED <<db_exists, tasks, tables, clock, conn, seq_table, now_used,
                   results, delta_rows, args, ret, fs, steps>>

\* lines 189-215, the aggregate row holds None: line 215 raises TypeError,
\* which leaves extract_metrics with the connection still open
DistributionRaises ==
    /\ pc = "distribution"
    /\ DistRaises(DistRow(tasks))
    /\ result' = [result EXCEPT !.tasks.total_tasks = DistRow(tasks).total]
    /\ pc' = "raised"
    /\ UNCHANGED <<db_exists, tasks, tables, clock, conn, seq_table, now_used,
                   results, delta_rows, args, ret, fs, steps>>

\* lines 222-242
TimeAggregates ==
    /\ pc = "time"
    /\ result' = [result EXCEPT !.time = FillTime(@, TimeRow(tasks))]
    /\ pc' = "median"
    /\ UNCHANGED <<db_exists, tasks, tables, clock, conn, seq_table, now_used,
                   results, delta_rows, args, ret, fs, steps>>

\* lines 245-263
MedianTime ==
    /\ pc = "median"
    /\ result' = [result EXCEPT
                    !.time.median_task_time_ms = Median(ActualTimes(tasks))]
    /\ pc' = IF IsNull(seq_table) THEN "tokens" ELSE "working"
    /\ UNCHANGED <<db_exists, tasks, tables, clock, conn, seq_table, now_used,
                   results, delta_rows, args, ret, fs, steps>>

\* the columns the interval queries of lines 270-290 name
IntervalColumns(tbls, name) ==
    {StatusCol(tbls, name), "timestamp", "end_timestamp"}

\* the interval table has every column the interval queries name
Queryable(tbls, name) == IntervalColumns(tbls, name) \subseteq Val(tbls[name]).cols

\* the working-time query closing the open intervals in the store: 'now' is
\* written back as their end timestamp
WorkingTimeWritesBack ==
    /\ pc = "working"
    /\ Queryable(tables, Val(seq_table))
    /\ now_used' = [now_used EXCEPT !.working = Some(NowMs(clock))]
    /\ result' = [result EXCEPT !.time.total_working_ms =
                    TotalWorkingMs(tables, Val(seq_table), NowMs(clock))]
    /\ tables' = [tables EXCEPT ![Val(seq_table)] = Some([Val(@) EXCEPT
            !.rows = [i \in DOMAIN @ |->
                [@[i] EXCEPT !.end_timestamp =
                    IF IsNull(@) THEN Some(NowMs(clock)) ELSE @]]])]
    /\ pc' = "blocked"
    /\ UNCHANGED <<db_exists, tasks, clock, conn, seq_table, results,
                   delta_rows, args, ret, fs, steps>>

\* lines 266-279: the working-time query, which evaluates 'now'
WorkingTime ==
    /\ pc = "working"
    /\ Queryable(tables, Val(seq_table))
    /\ now_used' = [now_used EXCEPT !.working = Some(NowMs(clock))]
    /\ result' = [result EXCEPT !.time.total_working_ms =
                    TotalWorkingMs(tables, Val(seq_table), NowMs(clock))]
    /\ pc' = "blocked"
    /\ UNCHANGED <<db_exists, tasks, tables, clock, conn, seq_table, results,
                   delta_rows, args, ret, fs, steps>>

\* lines 266-278, the interval table lacks a column the query names:
\* conn.execute raises sqlite3.OperationalError, which leaves extract_metrics
\* with the connection still open
WorkingTimeRaises ==
    /\ pc = "working"
    /\ ~Queryable(tables, Val(seq_table))
    /\ pc' = "query_failed"
    /\ UNCHANGED <<db_exists, tasks, tables, clock, conn, seq_table, result,
                   now_used, results, delta_rows, args, ret, fs, steps>>

\* lines 281-295: the blocked-time query, which evaluates 'now' again, and
\* the blocking ratio
BlockedTime ==
    /\ pc = "blocked"
    /\ now_used' = [now_used EXCEPT !.blocked = Some(NowMs(clock))]
    /\ LET blocked == TotalBlockedMs(tables, Val(seq_table), NowMs(clock)) IN
       result' = [result EXCEPT
                    !.time.total_blocked_ms = blocked,
                    !.time.blocking_ratio_pct =
                        BlockingRatio(result.time.total_working_ms, blocked)]
    /\ pc' = "queue_wait"
    /\ UNCHANGED <<db_exists, tasks, tables, clock, conn, seq_table, results,
                   delta_rows, args, ret, fs, steps>>

\* lines 298-305
QueueWait ==
    /\ pc = "queue_wait"
    /\ result' = [result EXCEPT !.time.avg_queue_wait_ms = AvgQueueWait(tasks)]
    /\ pc' = "tokens"
    /\ UNCHANGED <<db_exists, tasks, tables, clock, conn, seq_table, now_used,
                   results, delta_rows, args, ret, fs, steps>>

\* lines 310-340
Tokens ==
    /\ pc = "tokens"
    /\ result' = [result EXCEPT !.tokens = FillTokens(tasks)]
    /\ pc' = "cost"
    /\ UNCHANGED <<db_exists, tasks, tables, clock, conn, seq_table, now_used,
                   results, delta_rows, args, ret, fs, steps>>

\* lines 345-363
Cost ==
    /\ pc = "cost"
    /\ result' = [result EXCEPT !.cost = FillCost(tasks)]
    /\ pc' = "quality"
    /\ UNCHANGED <<db_exists, tasks, tables, clock, conn, seq_table, now_used,
                   results, delta_rows, args, ret, fs, steps>>

\* lines 368-396: only when a sequence table was found
Quality ==
    /\ pc = "quality"
    /\ result' = IF IsNull(seq_table) THEN result
                 ELSE [result EXCEPT
                         !.quality = FillQuality(tables, Val(seq_table))]
    /\ pc' = "throughput"
    /\ UNCHANGED <<db_exists, tasks, tables, clock, conn, seq_table, now_used,
                   results, delta_rows, args, ret, fs, steps>>

\* lines 401-404
Throughput ==
    /\ pc = "throughput"
    /\ result' = [result EXCEPT
                    !.throughput = FillThroughput(@, result.time, result.tasks)]
    /\ pc' = "agents"
    /\ UNCHANGED <<db_exists, tasks, tables, clock, conn, seq_table, now_used,
                   results, delta_rows, args, ret, fs, steps>>

\* lines 409-445
Agents ==
    /\ pc = "agents"
    /\ LET agents == AgentRows(tasks) IN
       result' = [result EXCEPT
                    !.agents = agents,
                    !.agent_count = Len(agents),
                    !.throughput = AgentThroughput(@, result.time, result.tasks,
                                                   Len(agents))]
    /\ pc' = "close"
    /\ UNCHANGED <<db_exists, tasks, tables, clock, conn, seq_table, now_used,
                   results, delta_rows, args, ret, fs, steps>>

\* lines 447-448
Close ==
    /\ pc = "close"
    /\ conn' = "closed"
    /\ pc' = "done"
    /\ UNCHANGED <<db_exists, tasks, tables, clock, seq_table, result,
                   now_used, results, delta_rows, args, ret, fs, steps>>

MaxTick == 1

\* the wall clock advances by a second while the interval queries are due
Tick ==
    /\ pc \in {"working", "blocked"}
    /\ clock < 10 + MaxTick
    /\ clock' = clock + 1
    /\ UNCHANGED <<db_exists, tasks, tables, pc, conn, seq_table, result,
                   now_used, results, delta_rows, args, ret, fs, steps>>

\* one call of extract_metrics
NextExtract ==
    \/ ExitMissing
    \/ Connect
    \/ Distribution
    \/ DistributionRaises
    \/ TimeAggregates
    \/ MedianTime
    \/ WorkingTime
    \/ WorkingTimeRaises
    \/ BlockedTime
    \/ QueueWait
    \/ Tokens
    \/ Cost
    \/ Quality
    \/ Throughput
    \/ Agents
    \/ Close
    \/ Tick

\* the snapshot extract_metrics returns for a store on which it does not
\* raise, the interval queries having evaluated 'now' as now_w and now_b
Snapshot(rows, tbls, now_w, now_b) ==
    LET st == _get_sequence_table(tbls)
        td == FillDistribution(DistRow(rows))
        tm0 == [FillTime(TimeMetrics, TimeRow(rows)) EXCEPT
                  !.median_task_time_ms = Median(ActualTimes(rows))]
        w == TotalWorkingMs(tbls, Val(st), now_w)
        b == TotalBlockedMs(tbls, Val(st), now_b)
        tm == IF IsNull(st) THEN tm0
              ELSE [tm0 EXCEPT !.total_working_ms = w,
                               !.total_blocked_ms = b,
                               !.blocking_ratio_pct = BlockingRatio(w, b),
                               !.avg_queue_wait_ms = AvgQueueWait(rows)]
        agents == AgentRows(rows)
    IN  [label |-> "run",
         agent_count |-> Len(agents),
         time |-> tm,
         tokens |-> FillTokens(rows),
         cost |-> FillCost(rows),
         tasks |-> td,
         quality |-> IF IsNull(st) THEN QualityMetrics
                     ELSE FillQuality(tbls, Val(st)),
         throughput |-> AgentThroughput(
                            FillThroughput(ThroughputMetrics, tm, td),
                            tm, td, Len(agents)),
         agents |-> agents]

---------------------------------------------------------------------------
(* Stores *)

\* the nondecreasing index vectors of length k over 1..n
NonDecreasing(k, n) ==
    {c \in [1..k -> 1..n] : \A i \in 1..(k - 1) : c[i] <= c[i + 1]}

\* the tables of at most m rows drawn from the row kinds `kinds`, one table
\* per multiset of rows (rows in the order of kinds)
TablesOf(kinds, m) ==
    UNION {{[i \in 1..k |-> kinds[c[i]]] : c \in NonDecreasing(k, Len(kinds))} :
           k \in 0..m}

\* rows with the primary key set to the row number
WithIds(rows) == [i \in 1..Len(rows) |-> [rows[i] EXCEPT !.id = i]]

Task ==
    [id |-> 0, status |-> "pending", deleted_at |-> NULL, points |-> Some(1),
     time_actual_ms |-> NULL, created_at |-> Some(1000), started_at |-> NULL,
     completed_at |-> NULL, worker_id |-> NULL, cost_usd |-> Some(Zero),
     metric |-> [k \in 1..8 |-> Some(0)]]

NoTables == [name \in Range(SeqCandidates) |-> NULL]

\* a task_sequence table with a closed pending and an open working interval
\* of task 1
PlainTables ==
    [NoTables EXCEPT !["task_sequence"] = Some(
        [cols |-> {"task_id", "status", "timestamp", "end_timestamp"},
         rows |-> <<[task_id |-> 1, status |-> "pending", timestamp |-> 1000,
                     end_timestamp |-> Some(3000)],
                    [task_id |-> 1, status |-> "working", timestamp |-> 3000,
                     end_timestamp |-> NULL]>>])]

\* a task_sequence table of an older shape, without the end_timestamp column
BrokenTables ==
    [NoTables EXCEPT !["task_sequence"] = Some(
        [cols |-> {"task_id", "status", "timestamp"},
         rows |-> <<[task_id |-> 1, status |-> "working",
                     timestamp |-> 3000]>>])]

\* before extract_metrics is called
Idle ==
    /\ clock = 10
    /\ pc = "start"
    /\ conn = "none"
    /\ fs = NoFiles
    /\ steps = <<>>
    /\ seq_table = NULL
    /\ result = ExperimentResults("run")
    /\ now_used = NoNow
    /\ results = <<>>
    /\ delta_rows = <<>>
    /\ args = NULL
    /\ ret = NULL

\* no store at db_path
MissingStore == db_exists = FALSE /\ tasks = <<>> /\ tables = NoTables

MaxTasks == 4

\* task rows that differ in status and soft-delete marker
DistKinds ==
    <<[Task EXCEPT !.status = "completed"],
      [Task EXCEPT !.status = "pending"],
      [Task EXCEPT !.status = "failed"],
      [Task EXCEPT !.status = "working"],
      [Task EXCEPT !.status = "cancelled"],
      [Task EXCEPT !.status = "blocked"],
      [Task EXCEPT !.status = "completed", !.deleted_at = Some(5000)],
      [Task EXCEPT !.status = "failed", !.deleted_at = Some(5000)]>>

InitDist ==
    /\ Idle
    /\ \/ MissingStore
       \/ /\ db_exists = TRUE
          /\ \E rows \in TablesOf(DistKinds, MaxTasks) : tasks = WithIds(rows)
          /\ tables \in {NoTables, PlainTables, BrokenTables}

\* extract_metrics over stores that differ in their tasks' statuses
SpecDist == InitDist /\ [][NextExtract]_vars

---------------------------------------------------------------------------
(* Task distribution: claims C1 and C2 *)

\* the number of non-deleted tasks of the store in status s
NLive(s) ==
    Cardinality({i \in DOMAIN tasks :
                    IsNull(tasks[i].deleted_at) /\ tasks[i].status = s})

\* r is c*100/n to one decimal: a multiple of 0.1 within 0.05 of the quotient
IsPercentOf(r, c, n) ==
    /\ 10 % r.d = 0
    /\ Abs(r.n * n - 100 * c * r.d) * 20 <= r.d * n

\* the distribution section has been executed
PastDistribution == db_exists /\ pc \notin {"start", "distribution"}

RatesOfClaimedTotal ==
    LET completed == NLive("completed")
        failed == NLive("failed")
        claimed_total == completed + failed + NLive("working")
        td == result.tasks
    IN  /\ claimed_total > 0 =>
              /\ IsPercentOf(td.completion_rate_pct, completed, claimed_total)
              /\ IsPercentOf(td.failure_rate_pct, failed, claimed_total)
        /\ claimed_total = 0 =>
              /\ td.completion_rate_pct = Zero
              /\ td.failure_rate_pct = Zero
        /\ QLe(QAdd(td.completion_rate_pct, td.failure_rate_pct), Q(100))

\* C1: for every set of non-deleted tasks, the empty one included, the
\* distribution section ends without raising and leaves completion_rate_pct
\* and failure_rate_pct as the percentages (to one decimal) of claimed_total =
\* completed + failed + working, with a sum of at most 100, both 0 when
\* claimed_total is 0.
C1_RatesOfClaimedTotal ==
    PastDistribution => (pc # "raised" /\ RatesOfClaimedTotal)

\* The rates of C1 on every store that holds at least one non-deleted task:
\* there the distribution section does not raise and the rates are as C1 says.
RatesOnNonEmptyStore ==
    (PastDistribution /\ Len(Live(tasks)) > 0) =>
        (pc # "raised" /\ RatesOfClaimedTotal)

\* a state in which the rates have been computed from three claimed tasks, one
\* of each kind, beside a pending task
RatesOnNonEmptyStoreReached ==
    /\ pc = "done"
    /\ NLive("completed") = 1 /\ NLive("failed") = 1 /\ NLive("working") = 1
    /\ NLive("pending") = 1
    /\ result.tasks.completion_rate_pct = Norm(333, 10)

\* every count, sum, rate and ratio of the snapshot is 0
ZeroSnapshot(r) ==
    /\ r.agent_count = 0 /\ r.agents = <<>>
    /\ r.time = TimeMetrics
    /\ r.tokens = TokenMetrics
    /\ r.cost = CostMetrics
    /\ r.tasks = TaskDistribution
    /\ r.quality = QualityMetrics
    /\ r.throughput = ThroughputMetrics

\* C2: on an existing store whose tasks table has no non-deleted row,
\* extract_metrics does not raise, and the snapshot it returns is all zero.
C2_EmptyStoreGivesZeroSnapshot ==
    (db_exists /\ Len(Live(tasks)) = 0) =>
        /\ pc # "raised"
        /\ pc = "done" => ZeroSnapshot(result)

---------------------------------------------------------------------------
(* Stores with an interval table *)

NSeqTasks == 3

MaxIntervals == 4

\* NSeqTasks working tasks, the first `deleted` of them soft-deleted
SeqTasks(deleted) ==
    [i \in 1..NSeqTasks |->
        [Task EXCEPT !.id = i, !.status = "working",
                     !.deleted_at = IF i <= deleted THEN Some(5000) ELSE NULL]]

\* interval rows: a closed and an open working interval for each of the tasks
\* 1, 2 and 3, a closed pending interval of task 1 and an open assigned
\* interval of task 2
IntervalKinds ==
    [k \in 1..8 |->
        IF k = 7
        THEN [task_id |-> 1, label |-> "pending", timestamp |-> 1000,
              end_timestamp |-> Some(2000)]
        ELSE IF k = 8
        THEN [task_id |-> 2, label |-> "assigned", timestamp |-> 8000,
              end_timestamp |-> NULL]
        ELSE IF k % 2 = 1
        THEN [task_id |-> (k + 1) \div 2, label |-> "working",
              timestamp |-> 2000, end_timestamp |-> Some(5000)]
        ELSE [task_id |-> k \div 2, label |-> "working",
              timestamp |-> 7000, end_timestamp |-> NULL]]

\* the store's interval table in one of its two historical shapes:
\* task_sequence(status) or task_state_sequence(event)
SeqTables(shape, intervals) ==
    IF shape = "task_sequence"
    THEN [NoTables EXCEPT !["task_sequence"] = Some(
            [cols |-> {"task_id", "status", "timestamp", "end_timestamp"},
             rows |-> [i \in 1..Len(intervals) |->
                [task_id |-> intervals[i].task_id,
                 status |-> intervals[i].label,
                 timestamp |-> intervals[i].timestamp,
                 end_timestamp |-> intervals[i].end_timestamp]]])]
    ELSE [NoTables EXCEPT !["task_state_sequence"] = Some(
            [cols |-> {"task_id", "event", "timestamp", "end_timestamp"},
             rows |-> [i \in 1..Len(intervals) |->
                [task_id |-> intervals[i].task_id,
                 event |-> intervals[i].label,
                 timestamp |-> intervals[i].timestamp,
                 end_timestamp |-> intervals[i].end_timestamp]]])]

InitSeq ==
    /\ Idle
    /\ \/ MissingStore
       \/ /\ db_exists = TRUE
          /\ \E deleted \in {0, 1, NSeqTasks} : tasks = SeqTasks(deleted)
          /\ \/ tables \in {NoTables, BrokenTables}
             \/ \E shape \in Range(SeqCandidates),
                   intervals \in TablesOf(IntervalKinds, MaxIntervals) :
                    tables = SeqTables(shape, intervals)

\* extract_metrics over stores that differ in their interval rows and in
\* which tasks are soft-deleted
SpecSeq == InitSeq /\ [][NextExtract]_vars

---------------------------------------------------------------------------
(* Soft-deleted tasks: claim C3 *)

DeletedIds ==
    {tasks[i].id : i \in {j \in DOMAIN tasks : ~IsNull(tasks[j].deleted_at)}}

\* the interval tables without the rows of soft-deleted tasks
WithoutDeletedIntervals ==
    [name \in DOMAIN tables |->
        IF IsNull(tables[name]) THEN NULL
        ELSE Some([Val(tables[name]) EXCEPT
                !.rows = SelectSeq(@, LAMBDA r : r.task_id \notin DeletedIds)])]

\* C3: soft-deleted tasks are excluded from every aggregate: the snapshot
\* extract_metrics returns is the snapshot of the same store without its
\* soft-deleted task rows and without their state-interval rows.
C3_DeletedRowsChangeNothing ==
    pc = "done" =>
        result = Snapshot(Live(tasks), WithoutDeletedIntervals,
                          OrZero(now_used.working), OrZero(now_used.blocked))

\* The part of C3 that holds: the snapshot does not depend on the soft-deleted
\* rows of the tasks table (the interval rows kept as they are).
DeletedTaskRowsChangeNothing ==
    pc = "done" =>
        result = Snapshot(Live(tasks), tables,
                          OrZero(now_used.working), OrZero(now_used.blocked))

---------------------------------------------------------------------------
(* Rework: claim C5 *)

\* the rows of the resolved sequence table
SeqRows == Val(tables[Val(seq_table)]).rows

\* the number of working intervals of task t in the resolved sequence table
WorkingIntervals(t) ==
    Cardinality({i \in DOMAIN SeqRows :
        /\ SeqRows[i].task_id = t
        /\ SeqRows[i][StatusCol(tables, Val(seq_table))] = "working"})

TasksInSeq == {SeqRows[i].task_id : i \in DOMAIN SeqRows}

TasksWithWork == {t \in TasksInSeq : WorkingIntervals(t) >= 1}

ReworkedTasks == {t \in TasksInSeq : WorkingIntervals(t) > 1}

PastQuality == pc \in {"throughput", "agents", "close", "done"}

\* C5: with the interval table present, once the quality section has run:
\* if a task has a working interval, rework_rate_pct is the percentage of the
\* tasks with work that have more than one working interval, and
\* rework_rate_pct + first_pass_success_pct is within 0.1 of 100; if no task
\* has a working interval, both are 0.
C5_ReworkAndFirstPassAreComplementary ==
    (PastQuality /\ ~IsNull(seq_table)) =>
        LET qm == result.quality
            total == QAdd(qm.rework_rate_pct, qm.first_pass_success_pct)
        IN  /\ TasksWithWork # {} =>
                /\ qm.rework_count = Cardinality(ReworkedTasks)
                /\ IsPercentOf(qm.rework_rate_pct, Cardinality(ReworkedTasks),
                               Cardinality(TasksWithWork))
                /\ QLe(QAbs(QSub(total, Q(100))), Norm(1, 10))
            /\ TasksWithWork = {} =>
                /\ qm.rework_rate_pct = Zero
                /\ qm.first_pass_success_pct = Zero

\* three tasks have worked and one of them twice: 33.3 + 66.7
C5_OneOfThreeReworked ==
    /\ pc = "done"
    /\ ~IsNull(seq_table)
    /\ Cardinality(TasksWithWork) = 3
    /\ Cardinality(ReworkedTasks) = 1
    /\ result.quality.rework_rate_pct = Norm(333, 10)
    /\ result.quality.first_pass_success_pct = Norm(667, 10)

---------------------------------------------------------------------------
(* _safe_div called directly: claim C4 *)

MaxArg == 2

\* the rationals k/2, -2*MaxArg <= k <= 2*MaxArg
Operands == {Norm(k, 2) : k \in (-2 * MaxArg)..(2 * MaxArg)}

InitSafeDiv ==
    /\ MissingStore
    /\ clock = 10
    /\ conn = "none"
    /\ fs = NoFiles
    /\ steps = <<>>
    /\ seq_table = NULL
    /\ result = ExperimentResults("run")
    /\ now_used = NoNow
    /\ results = <<>>
    /\ delta_rows = <<>>
    /\ pc = "call"
    /\ ret = NULL
    /\ \E x \in Operands, y \in {NULL} \cup {Some(q) : q \in Operands},
          d \in {Zero, Q(1), Q(-1)} :
            args = Some([numerator |-> x, denominator |-> y, default |-> d])

\* lines 151-153
CallSafeDiv ==
    /\ pc = "call"
    /\ ret' = Some(_safe_div(Val(args).numerator, Val(args).denominator,
                             Val(args).default))
    /\ pc' = "returned"
    /\ UNCHANGED <<db_exists, tasks, tables, clock, conn, seq_table, result,
                   now_used, results, delta_rows, args, fs, steps>>

NextSafeDiv == CallSafeDiv

\* _safe_div applied to operands drawn from a bounded set
SpecSafeDiv == InitSafeDiv /\ [][NextSafeDiv]_vars

\* C4: _safe_div(x, y, d) returns d when y is None or zero, and otherwise the
\* quotient: the value r with r * y = x.
C4_SafeDivIsQuotientOrDefault ==
    pc = "returned" =>
        LET x == Val(args).numerator
            y == Val(args).denominator
            r == Val(ret)
        IN  IF IsNull(y) \/ Val(y) = Zero
            THEN r = Val(args).default
            ELSE /\ r.d > 0
                 /\ r.n * Val(y).n * x.d = x.n * Val(y).d * r.d

\* a call with a negative denominator and a nonzero default has returned the
\* quotient: -3/2 divided by -1/2 is 3
C4_NegativeDenominatorDivided ==
    /\ pc = "returned"
    /\ Val(args).numerator = Norm(-3, 2)
    /\ Val(args).denominator = Some(Norm(-1, 2))
    /\ Val(args).default = Q(1)
    /\ Val(ret) = Q(3)

\* a call with denominator None and one with denominator 0 have returned the
\* default
C4_DefaultReturned ==
    /\ pc = "returned"
    /\ Val(args).numerator = Q(2)
    /\ Val(args).denominator \in {NULL, Some(Zero)}
    /\ Val(args).default = Q(-1)
    /\ Val(ret) = Q(-1)

---------------------------------------------------------------------------
(* Stores whose tasks differ in their duration: claim C6 *)

MaxTimed == 4

\* completed tasks by time_actual_ms, in no particular order: four positive
\* durations, a null one, a zero one, a negative one, and a soft-deleted task
\* with a positive duration
TimeKinds ==
    <<[Task EXCEPT !.status = "completed", !.time_actual_ms = Some(40)],
      [Task EXCEPT !.status = "completed", !.time_actual_ms = NULL],
      [Task EXCEPT !.status = "completed", !.time_actual_ms = Some(10)],
      [Task EXCEPT !.status = "completed", !.time_actual_ms = Some(30)],
      [Task EXCEPT !.status = "completed", !.time_actual_ms = Some(0)],
      [Task EXCEPT !.status = "completed", !.time_actual_ms = Some(20)],
      [Task EXCEPT !.status = "completed", !.time_actual_ms = Some(5),
                   !.deleted_at = Some(5000)],
      [Task EXCEPT !.status = "completed", !.time_actual_ms = Some(-5)]>>

InitTime ==
    /\ Idle
    /\ \/ MissingStore
       \/ /\ db_exists = TRUE
          /\ \E rows \in TablesOf(TimeKinds, MaxTimed) : tasks = WithIds(rows)
          /\ tables \in {NoTables, PlainTables, BrokenTables}

\* extract_metrics over stores that differ in their tasks' durations
SpecTime == InitTime /\ [][NextExtract]_vars

\* the non-deleted tasks with a positive duration
Timed ==
    {i \in DOMAIN tasks :
        /\ IsNull(tasks[i].deleted_at)
        /\ ~IsNull(tasks[i].time_actual_ms)
        /\ Val(tasks[i].time_actual_ms) > 0}

Duration(i) == Val(tasks[i].time_actual_ms)

\* the k-th smallest positive duration, 1 <= k <= Cardinality(Timed): the
\* duration with fewer than k durations below it and at most
\* Cardinality(Timed) - k above it
KthDuration(k) ==
    CHOOSE v \in {Duration(i) : i \in Timed} :
        /\ Cardinality({i \in Timed : Duration(i) < v}) < k
        /\ Cardinality({i \in Timed : Duration(i) > v}) <= Cardinality(Timed) - k

PastMedian == db_exists /\ pc \notin {"start", "distribution", "raised", "time", "median"}

\* C6: once the median step has run, median_task_time_ms is 0 when no
\* non-deleted task has a positive duration, the middle one of the positive
\* durations in ascending order when their number is odd, and half the sum of
\* the two central ones when it is even; null, zero and soft-deleted
\* durations play no part.
C6_MedianOfPositiveDurations ==
    PastMedian =>
        LET n == Cardinality(Timed)
            median == result.time.median_task_time_ms
        IN  IF n = 0 THEN median = Zero
            ELSE IF n % 2 = 1 THEN median = Q(KthDuration((n + 1) \div 2))
            ELSE /\ median.d \in {1, 2}
                 /\ median.n * 2 =
                      median.d * (KthDuration(n \div 2) + KthDuration(n \div 2 + 1))

\* the durations 40, 10, 30, 20 (stored in that order) have the median 25
C6_EvenCountAveraged ==
    /\ pc = "done"
    /\ {Duration(i) : i \in Timed} = {10, 20, 30, 40}
    /\ Cardinality(Timed) = 4
    /\ result.time.median_task_time_ms = Q(25)

\* the durations 10, 30, 20 beside a task without duration have the median 20
C6_OddCountMiddle ==
    /\ pc = "done"
    /\ {Duration(i) : i \in Timed} = {10, 20, 30}
    /\ Cardinality(Timed) = 3
    /\ Len(tasks) = 4
    /\ result.time.median_task_time_ms = Q(20)

\* a store whose only live tasks have a null or zero duration has the median 0
C6_NoPositiveDuration ==
    /\ pc = "done"
    /\ Timed = {}
    /\ Len(Live(tasks)) = 2
    /\ result.time.median_task_time_ms = Zero

---------------------------------------------------------------------------
(* Stores whose tasks differ in their token counters: claim C7 *)

MaxTokenTasks == 4

\* a task whose metric_k is v, its other counters 0
TaskWithMetric(k, v) == [Task EXCEPT !.metric[k + 1] = Some(v)]

\* tasks that each carry one counter: input, output, cached or thinking
\* tokens; a task whose counters are all NULL; a soft-deleted task carrying
\* all eight; a task carrying image and audio tokens, metric_6 and metric_7
TokenKinds ==
    <<TaskWithMetric(0, 1000),
      TaskWithMetric(1, 300),
      TaskWithMetric(2, 500),
      TaskWithMetric(3, 200),
      [Task EXCEPT !.metric = [k \in 1..8 |-> NULL]],
      [Task EXCEPT !.deleted_at = Some(5000),
                   !.metric = [k \in 1..8 |-> Some(700)]],
      [Task EXCEPT !.metric = [k \in 1..8 |->
                                  IF k >= 5 THEN Some(60) ELSE Some(0)]]>>

InitTokens ==
    /\ Idle
    /\ \/ MissingStore
       \/ /\ db_exists = TRUE
          /\ \E rows \in TablesOf(TokenKinds, MaxTokenTasks) :
                tasks = WithIds(rows)
          /\ tables \in {NoTables, PlainTables, BrokenTables}

\* extract_metrics over stores that differ in their tasks' token counters
SpecTokens == InitTokens /\ [][NextExtract]_vars

\* the total of metric_k over the non-deleted tasks of the store
LiveTotal(k) ==
    LET live == {i \in DOMAIN tasks : IsNull(tasks[i].deleted_at)}
        f[S \in SUBSET live] ==
            IF S = {} THEN 0
            ELSE LET i == CHOOSE j \in S : TRUE
                 IN  OrZero(tasks[i].metric[k + 1]) + f[S \ {i}]
    IN  f[live]

\* r is num/den to k decimals: a multiple of 10^-k within half a unit of the
\* quotient
IsQuotientTo(r, num, den, k) ==
    /\ Pow10(k) % r.d = 0
    /\ Abs(r.n * den - num * r.d) * 2 * Pow10(k) <= r.d * den

\* r is num/den to k decimals, and 0 when den is 0
IsGuardedRatio(r, num, den, k) ==
    IF den = 0 THEN r = Zero ELSE IsQuotientTo(r, num, den, k)

PastTokens ==
    pc \in {"cost", "quality", "throughput", "agents", "close", "done"}

\* C7: once the token section has run, cache_hit_rate_pct is
\* cached*100/(in+cached) to one decimal, output_ratio is out/in and
\* thinking_overhead is thinking/out to three decimals, and each of the three
\* is 0 when its own denominator is 0, whatever the other two are.
C7_TokenRatiosGuardedSeparately ==
    PastTokens =>
        LET tokens_in == LiveTotal(0)
            tokens_out == LiveTotal(1)
            tokens_cached == LiveTotal(2)
            tokens_thinking == LiveTotal(3)
            tk == result.tokens
        IN  /\ IsGuardedRatio(tk.cache_hit_rate_pct, tokens_cached * 100,
                              tokens_in + tokens_cached, 1)
            /\ IsGuardedRatio(tk.output_ratio, tokens_out, tokens_in, 3)
            /\ IsGuardedRatio(tk.thinking_overhead, tokens_thinking,
                              tokens_out, 3)

\* in = 1000 and cached = 500 give a cache hit rate of 33.3 while, with no
\* output tokens, the thinking overhead of 200 thinking tokens is 0
C7_HitRateWithZeroOutput ==
    /\ pc = "done"
    /\ LiveTotal(0) = 1000 /\ LiveTotal(2) = 500
    /\ LiveTotal(1) = 0 /\ LiveTotal(3) = 200
    /\ result.tokens.cache_hit_rate_pct = Norm(333, 10)
    /\ result.tokens.output_ratio = Zero
    /\ result.tokens.thinking_overhead = Zero

\* with no input tokens the output ratio is 0 while the cache hit rate (100)
\* and the thinking overhead (0.667) are not
C7_ZeroInputOnly ==
    /\ pc = "done"
    /\ LiveTotal(0) = 0 /\ LiveTotal(1) = 300
    /\ LiveTotal(2) = 500 /\ LiveTotal(3) = 200
    /\ result.tokens.output_ratio = Zero
    /\ result.tokens.cache_hit_rate_pct = Q(100)
    /\ result.tokens.thinking_overhead = Norm(667, 1000)

---------------------------------------------------------------------------
(* The formatting helpers.  A rendered cell is a record: the shape of the
   text, the number it shows (already rounded to the digits shown) and, for
   the two-part durations, the second number. *)

Cell(kind, value, minor) == [kind |-> kind, value |-> value, minor |-> minor]

\* int(x): truncation towards zero
Trunc(x) == IF x.n >= 0 THEN x.n \div x.d ELSE -((-x.n) \div x.d)

_fmt_ms(ms) ==
    IF ms = Zero THEN Cell("-", Zero, 0)
    ELSE LET n == Trunc(ms) IN
         IF n < 1000 THEN Cell("{}ms", Q(n), 0)
         ELSE IF n < 60000 THEN Cell("{:.1f}s", Round(Norm(n, 1000), 1), 0)
         ELSE IF n < 3600000
              THEN Cell("{}m {}s", Q(n \div 60000), (n % 60000) \div 1000)
              ELSE Cell("{}h {}m", Q(n \div 3600000), (n % 3600000) \div 60000)

_fmt_num(n) ==
    IF n.d = 1 THEN Cell("{:,}", n, 0) ELSE Cell("{:,.2f}", Round(n, 2), 0)

_fmt_usd(v) ==
    IF v = Zero THEN Cell("$0.00", Zero, 0) ELSE Cell("${:,.4f}", Round(v, 4), 0)

_fmt_pct(v) == Cell("{:.1f}%", Round(v, 1), 0)

\* the call fmt_fn(v)
Fmt(fmt_fn, v) ==
    CASE fmt_fn = "_fmt_ms" -> _fmt_ms(v)
      [] fmt_fn = "_fmt_num" -> _fmt_num(v)
      [] fmt_fn = "_fmt_usd" -> _fmt_usd(v)
      [] fmt_fn = "_fmt_pct" -> _fmt_pct(v)

---------------------------------------------------------------------------
(* generate_markdown: the delta analysis *)

\* the marker is chosen by the sign of diff alone, a zero diff included
DeltaMarkedWhenEqual(va, vb, fmt_fn, lower_better) ==
    LET diff == QSub(vb, va)
        pct == IF va # Zero
               THEN _safe_div(QMul(diff, Q(100)), Some(QAbs(va)), Zero)
               ELSE Zero
        indicator == IF lower_better
                     THEN (IF QLt(diff, Zero) THEN " (+)" ELSE " (-)")
                     ELSE (IF QLt(Zero, diff) THEN " (+)" ELSE " (-)")
    IN  [diff |-> diff, pct |-> pct,
         direction |-> IF QLt(diff, Zero) THEN "lower" ELSE "higher",
         indicator |-> indicator,
         text |-> [diff |-> Fmt(fmt_fn, diff), pct |-> Round(pct, 1),
                   indicator |-> indicator]]

\* the percentage is taken of va, not of abs(va)
DeltaPctOfSignedBase(va, vb, fmt_fn, lower_better) ==
    LET diff == QSub(vb, va)
        pct == IF va # Zero
               THEN _safe_div(QMul(diff, Q(100)), Some(va), Zero)
               ELSE Zero
        indicator == IF diff = Zero THEN ""
                     ELSE IF lower_better
                     THEN (IF QLt(diff, Zero) THEN " (+)" ELSE " (-)")
                     ELSE (IF QLt(Zero, diff) THEN " (+)" ELSE " (-)")
    IN  [diff |-> diff, pct |-> pct,
         direction |-> IF QLt(diff, Zero) THEN "lower" ELSE "higher",
         indicator |-> indicator,
         text |-> [diff |-> Fmt(fmt_fn, diff), pct |-> Round(pct, 1),
                   indicator |-> indicator]]

\* lines 681-691.  The function returns the text
\* f"{fmt_fn(diff)} ({pct:+.1f}%){indicator}"; the record keeps that text's
\* three parts beside the locals they are rendered from.
_delta(va, vb, fmt_fn, lower_better) ==
    LET diff == QSub(vb, va)
        pct == IF va # Zero
               THEN _safe_div(QMul(diff, Q(100)), Some(QAbs(va)), Zero)
               ELSE Zero
        indicator == IF diff = Zero THEN ""
                     ELSE IF lower_better
                     THEN (IF QLt(diff, Zero) THEN " (+)" ELSE " (-)")
                     ELSE (IF QLt(Zero, diff) THEN " (+)" ELSE " (-)")
    IN  [diff |-> diff, pct |-> pct,
         direction |-> IF QLt(diff, Zero) THEN "lower" ELSE "higher",
         indicator |-> indicator,
         text |-> [diff |-> Fmt(fmt_fn, diff), pct |-> Round(pct, 1),
                   indicator |-> indicator]]

\* every row is treated as lower-is-better
LowerBetterForAll(name) == TRUE

\* the lower_better argument of each row of lines 693-766
LowerBetter(name) ==
    CASE name = "Total Duration" -> TRUE
      [] name = "Total Cost" -> TRUE
      [] name = "Tasks Completed" -> FALSE
      [] name = "Completion Rate" -> FALSE
      [] name = "Tasks/Hour" -> FALSE
      [] name = "Rework Rate" -> TRUE
      [] name = "Total Billable Tokens" -> TRUE
      [] name = "Blocking Ratio" -> TRUE

DeltaRow(name, va, vb, fmt_fn) ==
    [name |-> name, delta |-> _delta(va, vb, fmt_fn, LowerBetter(name))]

\* lines 693-766
DeltaRows(a, b) ==
    <<DeltaRow("Total Duration", Q(a.time.total_duration_ms),
               Q(b.time.total_duration_ms), "_fmt_ms"),
      DeltaRow("Total Cost", a.cost.total_cost_usd, b.cost.total_cost_usd,
               "_fmt_usd"),
      DeltaRow("Tasks Completed", Q(a.tasks.completed), Q(b.tasks.completed),
               "_fmt_num"),
      DeltaRow("Completion Rate", a.tasks.completion_rate_pct,
               b.tasks.completion_rate_pct, "_fmt_pct"),
      DeltaRow("Tasks/Hour", a.throughput.tasks_per_hour,
               b.throughput.tasks_per_hour, "_fmt_num"),
      DeltaRow("Rework Rate", a.quality.rework_rate_pct,
               b.quality.rework_rate_pct, "_fmt_pct"),
      DeltaRow("Total Billable Tokens", Q(a.tokens.total_billable),
               Q(b.tokens.total_billable), "_fmt_num"),
      DeltaRow("Blocking Ratio", a.time.blocking_ratio_pct,
               b.time.blocking_ratio_pct, "_fmt_pct")>>

\* the per-agent entry of a snapshot, lines 645-674
AgentSection(r) ==
    IF r.agents = <<>> THEN "No agent data." ELSE "Agents"

\* a delta analysis for two snapshots or more
HasDeltaFromTwo(n) == n >= 2

\* line 677: len(results) == 2
HasDelta(n) == n = 2

\* lines 522-674: the title and the seven comparison sections, whose tables
\* all have the columns headers_base (one per snapshot, after "Metric"), then
\* one per-agent entry for each snapshot.  The report is kept as its list of
\* sections beside the column headers of its comparison tables.
Sections ==
    /\ pc = "markdown"
    /\ ret' = Some(
          [headers_base |->
              <<"Metric">> \o [i \in 1..Len(results) |-> results[i].label],
           sections |->
              <<"# Experiment Comparison Report", "## Summary",
                "## Time Metrics", "## Token Metrics", "## Cost Metrics",
                "## Task Distribution", "## Quality Metrics",
                "## Throughput", "## Per-Agent Breakdown">>
              \o [i \in 1..Len(results) |-> AgentSection(results[i])]])
    /\ pc' = "delta"
    /\ UNCHANGED <<db_exists, tasks, tables, clock, conn, seq_table, result,
                   now_used, results, delta_rows, args, fs, steps>>

\* lines 677-774: with exactly two snapshots
DeltaAnalysis ==
    /\ pc = "delta"
    /\ HasDelta(Len(results))
    /\ delta_rows' = DeltaRows(results[1], results[2])
    /\ ret' = Some([Val(ret) EXCEPT !.sections =
                @ \o <<"## Delta Analysis (B vs A)", "### Deltas",
                       "_(+) = improvement, (-) = regression_">>])
    /\ pc' = "footer"
    /\ UNCHANGED <<db_exists, tasks, tables, clock, conn, seq_table, result,
                   now_used, results, args, fs, steps>>

\* line 677: with any other number of snapshots
SkipDelta ==
    /\ pc = "delta"
    /\ ~HasDelta(Len(results))
    /\ pc' = "footer"
    /\ UNCHANGED <<db_exists, tasks, tables, clock, conn, seq_table, result,
                   now_used, results, delta_rows, args, ret, fs, steps>>

\* lines 776-780
Footer ==
    /\ pc = "footer"
    /\ ret' = Some([Val(ret) EXCEPT !.sections =
                @ \o <<"_Generated by compare_experiments.py_">>])
    /\ pc' = "rendered"
    /\ UNCHANGED <<db_exists, tasks, tables, clock, conn, seq_table, result,
                   now_used, results, delta_rows, args, fs, steps>>

\* one call of generate_markdown
NextReport ==
    \/ Sections
    \/ DeltaAnalysis
    \/ SkipDelta
    \/ Footer

---------------------------------------------------------------------------
(* Reports over snapshots that differ in the eight tracked metrics *)

MaxDelta == 3

\* the values a tracked metric takes: 0, the pair 10 and 8, the small
\* positive numbers up to MaxDelta, and a negative number
DeltaValues == <<0, 10, 8>> \o [k \in 1..MaxDelta |-> k] \o <<-4>>

\* the value at position i + k of DeltaValues, counted cyclically
Rotated(i, k) == DeltaValues[((i + k - 1) % Len(DeltaValues)) + 1]

\* the snapshot whose k-th tracked metric holds the value at position i + k - 1
\* of DeltaValues: whole numbers in the integer fields and in the cost and the
\* rate per hour, halves in the three percentages
SnapshotAt(label, i) ==
    [ExperimentResults(label) EXCEPT
        !.time.total_duration_ms = Rotated(i, 0),
        !.cost.total_cost_usd = Q(Rotated(i, 1)),
        !.tasks.completed = Rotated(i, 2),
        !.tasks.completion_rate_pct = Norm(Rotated(i, 3), 2),
        !.throughput.tasks_per_hour = Q(Rotated(i, 4)),
        !.quality.rework_rate_pct = Norm(Rotated(i, 5), 2),
        !.tokens.total_billable = Rotated(i, 6),
        !.time.blocking_ratio_pct = Norm(Rotated(i, 7), 2)]

InitReport ==
    /\ MissingStore
    /\ clock = 10
    /\ conn = "none"
    /\ fs = NoFiles
    /\ steps = <<>>
    /\ seq_table = NULL
    /\ result = ExperimentResults("run")
    /\ now_used = NoNow
    /\ delta_rows = <<>>
    /\ args = NULL
    /\ ret = NULL
    /\ pc = "markdown"
    /\ \E i, j \in 1..Len(DeltaValues) :
          \/ results = <<SnapshotAt("A", i)>>
          \/ results = <<SnapshotAt("A", i), SnapshotAt("B", j)>>
          \/ results = <<SnapshotAt("A", i), SnapshotAt("B", j),
                         SnapshotAt("C", i)>>

\* generate_markdown over one, two or three snapshots
SpecReport == InitReport /\ [][NextReport]_vars

\* the value of the tracked metric `name` in snapshot r
TrackedValue(r, name) ==
    CASE name = "Total Duration" -> Q(r.time.total_duration_ms)
      [] name = "Total Cost" -> r.cost.total_cost_usd
      [] name = "Tasks Completed" -> Q(r.tasks.completed)
      [] name = "Completion Rate" -> r.tasks.completion_rate_pct
      [] name = "Tasks/Hour" -> r.throughput.tasks_per_hour
      [] name = "Rework Rate" -> r.quality.rework_rate_pct
      [] name = "Total Billable Tokens" -> Q(r.tokens.total_billable)
      [] name = "Blocking Ratio" -> r.time.blocking_ratio_pct

LowerIsBetter ==
    {"Total Duration", "Total Cost", "Rework Rate", "Total Billable Tokens",
     "Blocking Ratio"}

HigherIsBetter == {"Tasks Completed", "Completion Rate", "Tasks/Hour"}

\* the delta analysis of two snapshots has been written
Compared == pc \in {"footer", "rendered"} /\ Len(results) = 2

\* the delta table has one row for each of the eight tracked metrics
EightRows ==
    /\ Len(delta_rows) = 8
    /\ {delta_rows[k].name : k \in 1..8} = LowerIsBetter \cup HigherIsBetter

\* the two snapshots hold the same values (their labels apart)
Identical == results[2] = [results[1] EXCEPT !.label = results[2].label]

\* C8: the delta analysis of two identical snapshots has, in each of the
\* eight tracked rows, diff = 0, percent = 0 and an empty marker, in the
\* values and in the rendered cell.
C8_IdenticalSnapshotsHaveZeroDeltas ==
    (Compared /\ Identical) =>
        /\ EightRows
        /\ \A k \in 1..8 :
            LET d == delta_rows[k].delta IN
            /\ d.diff = Zero /\ d.pct = Zero /\ d.indicator = ""
            /\ d.text.pct = Zero /\ d.text.indicator = ""
            /\ d.text.diff.value = Zero

\* two identical snapshots whose cost is 10 have been compared
C8_IdenticalNonZeroCompared ==
    /\ pc = "rendered"
    /\ Len(results) = 2
    /\ Identical
    /\ results[1].cost.total_cost_usd = Q(10)
    /\ results[1].time.total_duration_ms = 0
    /\ Len(delta_rows) = 8

\* C9: in the delta analysis of two snapshots, each tracked row's marker is
\* " (+)" exactly when b differs from a in the metric's favourable direction
\* (below a for total duration, total cost, rework rate, total billable tokens
\* and blocking ratio; above a for tasks completed, completion rate and
\* tasks/hour), " (-)" exactly when it differs in the other direction, and
\* empty exactly when b equals a.
C9_MarkerFollowsPolarityTable ==
    Compared =>
        /\ EightRows
        /\ \A k \in 1..8 :
            LET name == delta_rows[k].name
                va == TrackedValue(results[1], name)
                vb == TrackedValue(results[2], name)
                marker == delta_rows[k].delta.text.indicator
                favourable == IF name \in LowerIsBetter THEN QLt(vb, va)
                              ELSE QLt(va, vb)
            IN  /\ marker = " (+)" <=> favourable
                /\ marker = " (-)" <=> (vb # va /\ ~favourable)
                /\ marker = "" <=> vb = va

\* a report in which b is below a both in the total cost, marked as an
\* improvement, and in the tasks completed, marked as a regression, while the
\* total duration went up, a regression
C9_SameSignOppositeMarkers ==
    /\ pc = "rendered"
    /\ Len(results) = 2
    /\ results[1].cost.total_cost_usd = Q(10)
    /\ results[2].cost.total_cost_usd = Q(8)
    /\ results[1].tasks.completed > results[2].tasks.completed
    /\ results[1].time.total_duration_ms < results[2].time.total_duration_ms
    /\ delta_rows[1].delta.indicator = " (-)"
    /\ delta_rows[2].delta.indicator = " (+)"
    /\ delta_rows[3].delta.indicator = " (-)"

\* C10: in the delta analysis of two snapshots, each tracked row has
\* diff = b - a, pct = diff*100/|a| when a is not 0 and pct = 0 when a is 0,
\* so that pct is never of the opposite sign to diff; and a total cost of 10
\* against 8 gives diff = -2, pct = -20.0 and the improvement marker.
C10_DiffAndPercentOfBase ==
    Compared =>
        /\ EightRows
        /\ \A k \in 1..8 :
            LET name == delta_rows[k].name
                a == TrackedValue(results[1], name)
                b == TrackedValue(results[2], name)
                d == delta_rows[k].delta
            IN  /\ QAdd(a, d.diff) = b
                /\ a # Zero => QMul(d.pct, QAbs(a)) = QMul(d.diff, Q(100))
                /\ a = Zero => d.pct = Zero
                /\ a # Zero => (QLt(d.pct, Zero) <=> QLt(d.diff, Zero))
                /\ a # Zero => (QLt(Zero, d.pct) <=> QLt(Zero, d.diff))
                /\ (name = "Total Cost" /\ a = Q(10) /\ b = Q(8)) =>
                        /\ d.diff = Q(-2)
                        /\ d.pct = Q(-20)
                        /\ d.text.pct = Q(-20)
                        /\ d.indicator = " (+)"

\* a total cost of 10 against 8 has been compared, beside a metric that rose
\* from a negative base and one that rose from 0
C10_CostTenAgainstEight ==
    /\ pc = "rendered"
    /\ Len(results) = 2
    /\ delta_rows[2].name = "Total Cost"
    /\ results[1].cost.total_cost_usd = Q(10)
    /\ results[2].cost.total_cost_usd = Q(8)
    /\ delta_rows[2].delta.diff = Q(-2)
    /\ delta_rows[2].delta.pct = Q(-20)
    /\ \E k \in 1..8 :
          /\ QLt(TrackedValue(results[1], delta_rows[k].name), Zero)
          /\ QLt(Zero, delta_rows[k].delta.pct)
    /\ \E k \in 1..8 :
          /\ TrackedValue(results[1], delta_rows[k].name) = Zero
          /\ delta_rows[k].delta.diff # Zero
          /\ delta_rows[k].delta.pct = Zero

---------------------------------------------------------------------------
(* The delta analysis and the number of snapshots: claim C11 *)

\* the rendered report has a delta section
DeltaSectionPresent ==
    \E k \in DOMAIN Val(ret).sections :
        Val(ret).sections[k] = "## Delta Analysis (B vs A)"

\* C11: a rendered report has a delta section, and delta rows, exactly when
\* two snapshots were supplied, and then every row's diff is the second
\* snapshot's value minus the first's; with one snapshot or three there is
\* neither, and in every case the comparison tables have one column per
\* snapshot, in input order, and there is one per-agent entry per snapshot.
C11_DeltaIffExactlyTwoSnapshots ==
    pc = "rendered" =>
        /\ DeltaSectionPresent <=> Len(results) = 2
        /\ delta_rows # <<>> <=> Len(results) = 2
        /\ Len(results) = 2 =>
              \A k \in DOMAIN delta_rows :
                  delta_rows[k].delta.diff =
                      QSub(TrackedValue(results[2], delta_rows[k].name),
                           TrackedValue(results[1], delta_rows[k].name))
        /\ Val(ret).headers_base =
              <<"Metric">> \o [i \in 1..Len(results) |-> results[i].label]
        /\ Cardinality({k \in DOMAIN Val(ret).sections :
                Val(ret).sections[k] = "No agent data."}) = Len(results)

\* three snapshots that differ in their cost have been rendered side by side,
\* without a delta section
C11_ThreeSnapshotsNoDelta ==
    /\ pc = "rendered"
    /\ Len(results) = 3
    /\ results[1].cost.total_cost_usd = Q(10)
    /\ results[2].cost.total_cost_usd = Q(8)
    /\ Val(ret).headers_base = <<"Metric", "A", "B", "C">>
    /\ delta_rows = <<>>

\* one snapshot has been rendered alone
C11_OneSnapshotNoDelta ==
    /\ pc = "rendered"
    /\ Len(results) = 1
    /\ Val(ret).headers_base = <<"Metric", "A">>
    /\ delta_rows = <<>>

---------------------------------------------------------------------------
(* Stores whose tasks differ in their timestamps and workers *)

MaxStamped == 4

\* a task with the given status, creation, start and completion timestamps
\* and worker
Stamped(status, created_at, started_at, completed_at, worker_id) ==
    [Task EXCEPT !.status = status, !.created_at = created_at,
                 !.started_at = started_at, !.completed_at = completed_at,
                 !.worker_id = worker_id]

\* a task completed an hour after its creation; a working task; a completed
\* task without creation timestamp; a task created at timestamp 0; a task
\* whose completion precedes its creation; a soft-deleted task; a pending task
StampKinds ==
    <<[Stamped("completed", Some(1000), Some(2000), Some(3601000), Some(1))
         EXCEPT !.points = Some(2), !.cost_usd = Some(Norm(1, 2))],
      [Stamped("working", Some(2000), Some(2500), NULL, Some(2))
         EXCEPT !.cost_usd = Some(Q(2))],
      [Stamped("completed", NULL, Some(3000), Some(7201000), NULL)
         EXCEPT !.cost_usd = Some(Q(3))],
      [Stamped("completed", Some(0), Some(500), Some(1800000), Some(1))
         EXCEPT !.cost_usd = Some(Q(1))],
      [Stamped("completed", Some(5000), NULL, Some(4000), Some(2))
         EXCEPT !.cost_usd = NULL],
      [Stamped("completed", Some(100), Some(9000), Some(9000000), Some(3))
         EXCEPT !.deleted_at = Some(5000), !.cost_usd = Some(Q(9))],
      Stamped("pending", Some(3000), NULL, NULL, NULL)>>

InitStamps ==
    /\ Idle
    /\ \/ MissingStore
       \/ /\ db_exists = TRUE
          /\ \E rows \in TablesOf(StampKinds, MaxStamped) :
                tasks = WithIds(rows)
          /\ tables \in {NoTables, PlainTables, BrokenTables}

\* extract_metrics over stores that differ in their tasks' timestamps
SpecStamps == InitStamps /\ [][NextExtract]_vars

---------------------------------------------------------------------------
(* No interval table: claim C12 *)

NoIntervalTable == \A name \in DOMAIN tables : IsNull(tables[name])

\* what extract_metrics returns on a store without interval table: the
\* quality group and the interval-derived time fields are 0, the other groups
\* are those extracted from the same tasks beside an interval table
ZeroQualitySameGroups ==
    LET with == Snapshot(tasks, PlainTables, NowMs(clock), NowMs(clock))
    IN  /\ result.quality = QualityMetrics
        /\ result.time.total_working_ms = 0
        /\ result.time.total_blocked_ms = 0
        /\ result.time.blocking_ratio_pct = Zero
        /\ result.tasks = with.tasks
        /\ result.tokens = with.tokens
        /\ result.cost = with.cost
        /\ result.throughput = with.throughput
        /\ result.agents = with.agents
        /\ result.agent_count = with.agent_count
        /\ with.quality # QualityMetrics

\* C12: on every store without interval table extract_metrics does not
\* raise, and the snapshot it returns has the quality group and
\* total_working_ms, total_blocked_ms and blocking_ratio_pct at 0 and the
\* distribution, token, cost, throughput and worker groups as they are
\* extracted beside an interval table.
C12_NoIntervalTableStillReturns ==
    (db_exists /\ NoIntervalTable) =>
        /\ pc \notin {"raised", "query_failed"}
        /\ pc = "done" => ZeroQualitySameGroups

\* The part of C12 that holds: without interval table the only extraction
\* that raises is the one over a store without live task, and every snapshot
\* returned is as C12 says.
NoIntervalTableZeroQuality ==
    (db_exists /\ NoIntervalTable) =>
        /\ pc # "query_failed"
        /\ pc = "raised" => Len(Live(tasks)) = 0
        /\ pc = "done" => ZeroQualitySameGroups

\* a store without interval table, with two workers and a completed task,
\* has been extracted
ExtractedWithoutIntervalTable ==
    /\ pc = "done"
    /\ NoIntervalTable
    /\ result.agent_count = 2
    /\ result.tasks.completed = 1
    /\ result.throughput.tasks_per_hour # Zero
    /\ result.quality = QualityMetrics

---------------------------------------------------------------------------
(* main: the runs are extracted in input order, then rendered *)

MaxRuns == 3

\* a store at a database path: missing, or a file holding tasks and tables
Store(exists, rows, tbls) == [exists |-> exists, tasks |-> rows, tables |-> tbls]

\* the stores a run may point at: none; one with a completed and a working
\* task and an interval table; the same tasks without interval table; one
\* with no task; one whose interval table lacks a column
RunStores ==
    {Store(FALSE, <<>>, NoTables),
     Store(TRUE, WithIds(<<StampKinds[1], StampKinds[2]>>), PlainTables),
     Store(TRUE, WithIds(<<StampKinds[1]>>), NoTables),
     Store(TRUE, <<>>, NoTables),
     Store(TRUE, WithIds(<<StampKinds[2]>>), BrokenTables)}

RunLabels == <<"A", "B", "C", "D">>

\* main after argument parsing and label resolution (lines 988-1059):
\* args.databases as the stores found at the paths, the labels, the --json
\* flag, and the position of the extraction loop
InitMain ==
    /\ MissingStore
    /\ clock = 10
    /\ conn = "none"
    /\ fs = NoFiles
    /\ steps = <<>>
    /\ seq_table = NULL
    /\ result = ExperimentResults("run")
    /\ now_used = NoNow
    /\ results = <<>>
    /\ delta_rows = <<>>
    /\ ret = NULL
    /\ pc = "main"
    /\ \E n \in 1..MaxRuns, json \in BOOLEAN :
          \E databases \in [1..n -> RunStores] :
              args = Some([databases |-> databases,
                           labels |-> SubSeq(RunLabels, 1, n),
                           json |-> json, i |-> 1])

\* lines 1062-1063, the call: extract_metrics(db_path, label) for the next
\* database
MainCall ==
    /\ pc = "main"
    /\ Val(args).i <= Len(Val(args).databases)
    /\ LET store == Val(args).databases[Val(args).i] IN
        /\ db_exists' = store.exists
        /\ tasks' = store.tasks
        /\ tables' = store.tables
    /\ conn' = "none"
    /\ seq_table' = NULL
    /\ now_used' = NoNow
    /\ pc' = "start"
    /\ UNCHANGED <<clock, result, results, delta_rows, args, ret, fs, steps>>

\* line 1063, the return: results.append(...), and on to the next database
MainAppend ==
    /\ pc = "done"
    /\ results' = Append(results, result)
    /\ args' = Some([Val(args) EXCEPT !.i = @ + 1])
    /\ pc' = "main"
    /\ UNCHANGED <<db_exists, tasks, tables, clock, conn, seq_table, result,
                   now_used, delta_rows, ret, fs, steps>>

\* lines 1079-1087: every database extracted, without --json:
\* generate_markdown(results)
MainMarkdown ==
    /\ pc = "main"
    /\ Val(args).i > Len(Val(args).databases)
    /\ ~Val(args).json
    /\ pc' = "markdown"
    /\ UNCHANGED <<db_exists, tasks, tables, clock, conn, seq_table, result,
                   now_used, results, delta_rows, args, ret, fs, steps>>

\* lines 1067-1078: every database extracted, with --json: the snapshots
\* are dumped as they are
MainJson ==
    /\ pc = "main"
    /\ Val(args).i > Len(Val(args).databases)
    /\ Val(args).json
    /\ ret' = Some([headers_base |-> <<>>,
                    sections |-> [k \in 1..Len(results) |-> results[k].label]])
    /\ pc' = "printed"
    /\ UNCHANGED <<db_exists, tasks, tables, clock, conn, seq_table, result,
                   now_used, results, delta_rows, args, fs, steps>>

\* main: an exception or sys.exit inside extract_metrics is not caught, so
\* at "exit", "raised" and "query_failed" the program has ended
NextMain ==
    \/ MainCall
    \/ NextExtract
    \/ MainAppend
    \/ MainMarkdown
    \/ MainJson
    \/ NextReport

SpecMain == InitMain /\ [][NextMain]_vars

---------------------------------------------------------------------------
(* A missing store among several runs: claim C13 *)

\* run k has been extracted and its snapshot handed to the output
Presented(k) ==
    /\ \E j \in DOMAIN results : results[j].label = Val(args).labels[k]
    /\ ~IsNull(ret)
    /\ \E j \in DOMAIN Val(ret).sections : TRUE

\* C13: when the program ends because a run's store is missing, the
\* snapshots of the runs whose store exists, those before and those after the
\* missing one, have been produced and handed to the output, and none has
\* been produced for the missing run.
C13_MissingStoreConfinedToRun ==
    pc = "exit" =>
        \A k \in DOMAIN Val(args).databases :
            IF Val(args).databases[k].exists
            THEN Presented(k)
            ELSE \A j \in DOMAIN results :
                    results[j].label # Val(args).labels[k]

\* What holds instead: once a run's store is found missing the program has
\* ended with no output at all, the snapshots extracted before it are
\* dropped and the runs after it are never extracted.
MissingStoreEndsProgram ==
    pc = "exit" =>
        /\ ret = NULL
        /\ Len(results) = Val(args).i - 1
        /\ ~Val(args).databases[Val(args).i].exists
        /\ ~ENABLED NextMain

\* the second of three runs is missing after the first has been extracted
MissingSecondOfThree ==
    /\ pc = "exit"
    /\ Len(Val(args).databases) = 3
    /\ Val(args).i = 2
    /\ Len(results) = 1
    /\ Val(args).databases[3].exists
    /\ Val(args).databases[3].tasks # <<>>

---------------------------------------------------------------------------
(* The connection and the store: claims C14 and C15 *)

\* extract_metrics has ended: it returned, or an exception left it
Ended == pc \in {"done", "raised", "query_failed"}

\* C14: whenever extract_metrics has ended, by returning a snapshot or by an
\* exception raised while it was querying, the connection it opened is no
\* longer open.
C14_ConnectionClosedOnEveryExit == Ended => conn # "open"

\* The part of C14 that holds: the connection is closed when extract_metrics
\* returns, and none was opened when the store is missing.
ConnectionClosedOnReturn ==
    /\ pc = "done" => conn = "closed"
    /\ pc = "exit" => conn = "none"

\* the working-time query failed on a store with a live task, and the
\* connection is still open
QueryFailedConnectionOpen ==
    /\ pc = "query_failed"
    /\ Len(Live(tasks)) > 0
    /\ conn = "open"

\* C15: no step of extract_metrics, in an extraction that returns or in one
\* that fails, changes the store: the task rows and the interval rows stay as
\* they are, the end timestamps of the open intervals included.
C15_StoreNeverModified ==
    [][/\ tasks' = tasks
       /\ tables' = tables
       /\ db_exists' = db_exists]_vars

\* an extraction has returned after both interval queries closed an open
\* interval with 'now', and the interval is still open in the store
C15_OpenIntervalStillOpen ==
    /\ pc = "done"
    /\ ~IsNull(seq_table)
    /\ ~IsNull(now_used.working) /\ ~IsNull(now_used.blocked)
    /\ \E i \in DOMAIN SeqRows :
          /\ IsNull(SeqRows[i].end_timestamp)
          /\ SeqRows[i][StatusCol(tables, Val(seq_table))] = "working"
    /\ \E i \in DOMAIN SeqRows :
          /\ IsNull(SeqRows[i].end_timestamp)
          /\ SeqRows[i][StatusCol(tables, Val(seq_table))] = "assigned"
    /\ result.time.total_working_ms > 0

---------------------------------------------------------------------------
(* Queue wait, throughput and total duration: claims C16, C17 and C18 *)

\* the non-deleted tasks of the store
LiveTasks == {i \in DOMAIN tasks : IsNull(tasks[i].deleted_at)}

\* r is num/den to k decimals, den of either sign
IsSignedQuotientTo(r, num, den, k) ==
    /\ Pow10(k) % r.d = 0
    /\ Abs(r.n * den - num * r.d) * 2 * Pow10(k) <= r.d * Abs(den)

\* the non-deleted tasks with both a creation and a start timestamp
Waited ==
    {i \in LiveTasks :
        ~IsNull(tasks[i].created_at) /\ ~IsNull(tasks[i].started_at)}

\* the total of started_at - created_at over the tasks S
TotalWait(S) ==
    LET g[T \in SUBSET S] ==
            IF T = {} THEN 0
            ELSE LET i == CHOOSE j \in T : TRUE
                 IN  Val(tasks[i].started_at) - Val(tasks[i].created_at)
                     + g[T \ {i}]
    IN  g[S]

\* avg_queue_wait_ms is the mean wait, to one decimal, of the tasks with both
\* timestamps, and 0 when there is none
QueueWaitIsMean ==
    IF Waited = {} THEN result.time.avg_queue_wait_ms = Zero
    ELSE IsSignedQuotientTo(result.time.avg_queue_wait_ms,
                            TotalWait(Waited),
                            Cardinality(Waited), 1)

\* C16: on every store, with or without interval table, the snapshot
\* extract_metrics returns has avg_queue_wait_ms equal to the mean of
\* started_at - created_at over the non-deleted tasks that have both, and 0
\* when no task has both.
C16_QueueWaitIsMeanOnEveryStore == pc = "done" => QueueWaitIsMean

\* The part of C16 that holds: the mean is computed when an interval table
\* exists; without one avg_queue_wait_ms stays 0.
QueueWaitIsMeanBesideIntervalTable ==
    pc = "done" =>
        IF IsNull(seq_table) THEN result.time.avg_queue_wait_ms = Zero
        ELSE QueueWaitIsMean

\* beside an interval table, the waits 1000 and 500 give the mean 750
QueueWaitAveraged ==
    /\ pc = "done"
    /\ ~IsNull(seq_table)
    /\ Cardinality(Waited) = 2
    /\ result.time.avg_queue_wait_ms = Q(750)

\* the number of distinct workers of the non-deleted tasks
WorkerCount ==
    Cardinality({tasks[i].worker_id : i \in LiveTasks} \ {NULL})

CompletedTasks == {i \in LiveTasks : tasks[i].status = "completed"}

\* the total of the points of the tasks S
TotalPoints(S) ==
    LET g[T \in SUBSET S] ==
            IF T = {} THEN 0
            ELSE LET i == CHOOSE j \in T : TRUE
                 IN  OrZero(tasks[i].points) + g[T \ {i}]
    IN  g[S]

PastAgents == pc \in {"close", "done"}

\* C17: once the throughput and worker sections have run, with d the total
\* duration in ms: tasks_per_hour is completed * 3600000 / d and
\* points_per_hour is completed_points * 3600000 / d, to two decimals, both 0
\* when d is 0; avg_tasks_per_agent_hour is completed * 3600000 / (d * workers)
\* to two decimals when there is a worker and d > 0 and 0 otherwise, so that
\* when it is not 0 it is tasks_per_hour / agent_count within the rounding.
C17_ThroughputPerHour ==
    PastAgents =>
        LET d == result.time.total_duration_ms
            completed == Cardinality(CompletedTasks)
            completed_points == TotalPoints(CompletedTasks)
            workers == WorkerCount
            tp == result.throughput
        IN  /\ result.agent_count = workers
            /\ IF d = 0
               THEN tp.tasks_per_hour = Zero /\ tp.points_per_hour = Zero
               ELSE /\ IsSignedQuotientTo(tp.tasks_per_hour,
                                          completed * MsPerHour, d, 2)
                    /\ IsSignedQuotientTo(tp.points_per_hour,
                                          completed_points * MsPerHour, d, 2)
            /\ IF workers > 0 /\ d > 0
               THEN IsSignedQuotientTo(tp.avg_tasks_per_agent_hour,
                                       completed * MsPerHour, d * workers, 2)
               ELSE tp.avg_tasks_per_agent_hour = Zero
            /\ tp.avg_tasks_per_agent_hour # Zero =>
                  QLe(QAbs(QSub(QMul(tp.avg_tasks_per_agent_hour, Q(workers)),
                                tp.tasks_per_hour)),
                      Norm(workers + 1, 200))

\* one task completed in an hour by one of two workers: 1 task and 2 points
\* per hour, 0.5 tasks per agent hour
C17_TwoWorkersOneHour ==
    /\ pc = "done"
    /\ result.time.total_duration_ms = MsPerHour
    /\ result.agent_count = 2
    /\ result.throughput.tasks_per_hour = Q(1)
    /\ result.throughput.points_per_hour = Q(2)
    /\ result.throughput.avg_tasks_per_agent_hour = Norm(1, 2)

\* a negative duration: a negative rate per hour and, with a worker, no rate
\* per agent hour
C17_NegativeDuration ==
    /\ pc = "done"
    /\ result.time.total_duration_ms < 0
    /\ result.agent_count > 0
    /\ QLt(result.throughput.tasks_per_hour, Zero)
    /\ result.throughput.avg_tasks_per_agent_hour = Zero

\* the creation and the completion timestamps of the non-deleted tasks
CreatedStamps ==
    {Val(tasks[i].created_at) :
        i \in {j \in LiveTasks : ~IsNull(tasks[j].created_at)}}

CompletedStamps ==
    {Val(tasks[i].completed_at) :
        i \in {j \in LiveTasks : ~IsNull(tasks[j].completed_at)}}

Earliest(S) == CHOOSE v \in S : \A w \in S : v <= w

Latest(S) == CHOOSE v \in S : \A w \in S : v >= w

PastTime == pc \notin {"start", "exit", "distribution", "raised", "time"}

\* total_duration_ms is the latest completion minus the earliest creation
\* timestamp, 0 when there is no completion or no creation timestamp
DurationIsLatestMinusEarliest ==
    IF CreatedStamps = {} \/ CompletedStamps = {}
    THEN result.time.total_duration_ms = 0
    ELSE result.time.total_duration_ms =
            Latest(CompletedStamps) - Earliest(CreatedStamps)

\* C18: once the time section has run, total_duration_ms is the latest
\* completed_at minus the earliest created_at of the non-deleted tasks, 0
\* when no non-deleted task has a completion timestamp or none has a creation
\* timestamp; and it is not negative when every non-deleted task has both
\* with completed_at >= created_at.
C18_DurationIsLatestMinusEarliest ==
    PastTime =>
        /\ DurationIsLatestMinusEarliest
        /\ (\A i \in LiveTasks :
                /\ ~IsNull(tasks[i].created_at)
                /\ ~IsNull(tasks[i].completed_at)
                /\ Val(tasks[i].completed_at) >= Val(tasks[i].created_at))
              => result.time.total_duration_ms >= 0

\* The part of C18 that holds: the claim's value whenever neither bound is
\* the timestamp 0, which the code takes for an absent one.
DurationUnlessBoundIsZero ==
    PastTime =>
        IF CreatedStamps # {} /\ CompletedStamps # {}
           /\ (Earliest(CreatedStamps) = 0 \/ Latest(CompletedStamps) = 0)
        THEN result.time.total_duration_ms = 0
        ELSE DurationIsLatestMinusEarliest

\* two tasks, one without creation timestamp, span two hours
DurationOfTwoHours ==
    /\ pc = "done"
    /\ Cardinality(CreatedStamps) = 1
    /\ Cardinality(CompletedStamps) = 2
    /\ result.time.total_duration_ms = 2 * MsPerHour

---------------------------------------------------------------------------
(* Stores whose intervals differ in label and length: claim C19 *)

Interval(task_id, label, timestamp, end_timestamp) ==
    [task_id |-> task_id, label |-> label, timestamp |-> timestamp,
     end_timestamp |-> end_timestamp]

\* a closed and an open working interval, a closed pending and an open
\* assigned interval, a pending interval that ends before it starts, and an
\* open interval with a label the queries do not name
RatioKinds ==
    <<Interval(1, "working", 2000, Some(5000)),
      Interval(2, "working", 7000, NULL),
      Interval(1, "pending", 1000, Some(2000)),
      Interval(2, "assigned", 8000, NULL),
      Interval(3, "pending", 6000, Some(3000)),
      Interval(3, "completed", 5000, NULL)>>

InitRatio ==
    /\ Idle
    /\ \/ MissingStore
       \/ /\ db_exists = TRUE
          /\ tasks \in {<<>>, SeqTasks(0)}
          /\ \/ tables \in {NoTables, BrokenTables}
             \/ \E shape \in Range(SeqCandidates),
                   intervals \in TablesOf(RatioKinds, MaxIntervals) :
                    tables = SeqTables(shape, intervals)

\* extract_metrics over stores that differ in their intervals' labels and
\* lengths
SpecRatio == InitRatio /\ [][NextExtract]_vars

\* the rows of the resolved interval table labelled with one of labels
Labelled(labels) ==
    {i \in DOMAIN SeqRows :
        SeqRows[i][StatusCol(tables, Val(seq_table))] \in labels}

\* the length of interval i, an open one ending at now
LengthAt(i, now) ==
    (IF IsNull(SeqRows[i].end_timestamp) THEN now
     ELSE Val(SeqRows[i].end_timestamp)) - SeqRows[i].timestamp

\* the total length of the intervals S, the open ones ending at now
TotalLength(S, now) ==
    LET g[T \in SUBSET S] ==
            IF T = {} THEN 0
            ELSE LET i == CHOOSE j \in T : TRUE
                 IN  LengthAt(i, now) + g[T \ {i}]
    IN  g[S]

PastBlocked ==
    pc \in {"queue_wait", "tokens", "cost", "quality", "throughput", "agents",
            "close", "done"}

\* C19: with an interval table, once the interval queries have run,
\* total_working_ms is the total length of the 'working' intervals and
\* total_blocked_ms that of the 'pending' and 'assigned' ones (open intervals
\* ending at the 'now' of the query), blocking_ratio_pct is
\* blocked*100/(blocked + working) to one decimal, 0 when blocked + working
\* is 0, and it lies between 0 and 100 when no counted interval ends before
\* it starts.
C19_BlockingRatioOfTrackedTime ==
    (PastBlocked /\ ~IsNull(seq_table)) =>
        LET now_w == Val(now_used.working)
            now_b == Val(now_used.blocked)
            working == TotalLength(Labelled({"working"}), now_w)
            blocked == TotalLength(Labelled({"pending", "assigned"}), now_b)
            ratio == result.time.blocking_ratio_pct
        IN  /\ result.time.total_working_ms = working
            /\ result.time.total_blocked_ms = blocked
            /\ IF blocked + working = 0 THEN ratio = Zero
               ELSE IsSignedQuotientTo(ratio, blocked * 100,
                                       blocked + working, 1)
            /\ ((\A i \in Labelled({"working"}) : LengthAt(i, now_w) >= 0)
                /\ (\A i \in Labelled({"pending", "assigned"}) :
                        LengthAt(i, now_b) >= 0))
               => (QLe(Zero, ratio) /\ QLe(ratio, Q(100)))

\* 3000 ms working and 1000 ms pending: a blocking ratio of 25.0
C19_QuarterBlocked ==
    /\ pc = "done"
    /\ ~IsNull(seq_table)
    /\ result.time.total_working_ms = 3000
    /\ result.time.total_blocked_ms = 1000
    /\ result.time.blocking_ratio_pct = Q(25)
    /\ Labelled({"completed"}) # {}

\* working and blocked time cancel: the denominator is 0 and so is the ratio
C19_ZeroDenominator ==
    /\ pc = "done"
    /\ ~IsNull(seq_table)
    /\ result.time.total_working_ms = 3000
    /\ result.time.total_blocked_ms = -3000
    /\ result.time.blocking_ratio_pct = Zero

---------------------------------------------------------------------------
(* Billable tokens: claim C20 *)

\* the channels that are not billed: cached, image, audio, metric_6, metric_7
Unbilled == {2, 4, 5, 6, 7}

\* the store's tasks with every unbilled channel of every task set to v
Rechannelled(v) ==
    [i \in DOMAIN tasks |->
        [tasks[i] EXCEPT !.metric =
            [k \in 1..8 |-> IF k - 1 \in Unbilled THEN v ELSE @[k]]]]

\* C20: once the token section has run, total_billable is the total of
\* metric_0 (in), metric_1 (out) and metric_3 (thinking) over the non-deleted
\* tasks, and it is what the same tasks give with their cached, image, audio,
\* metric_6 and metric_7 channels set to NULL, to 0 or to 999.
C20_BillableIsInOutThinking ==
    PastTokens =>
        /\ result.tokens.total_billable =
              LiveTotal(0) + LiveTotal(1) + LiveTotal(3)
        /\ \A v \in {NULL, Some(0), Some(999)} :
              FillTokens(Rechannelled(v)).total_billable =
                  result.tokens.total_billable

\* input, output and thinking tokens are billed, 1500 in all, beside cached
\* tokens on another task
C20_CachedNotBilled ==
    /\ pc = "done"
    /\ LiveTotal(0) = 1000 /\ LiveTotal(1) = 300 /\ LiveTotal(3) = 200
    /\ LiveTotal(2) = 500
    /\ result.tokens.total_billable = 1500

\* image and audio tokens, metric_6 and metric_7 are not billed
C20_ImageAudioNotBilled ==
    /\ pc = "done"
    /\ LiveTotal(0) = 1000
    /\ LiveTotal(4) = 60 /\ LiveTotal(5) = 60
    /\ LiveTotal(6) = 60 /\ LiveTotal(7) = 60
    /\ result.tokens.total_billable = 1000
    /\ result.tokens.tokens_image = 60

---------------------------------------------------------------------------
(* The worker list: claim C21 *)

\* the worker ids of the non-deleted tasks
LiveWorkers == {Val(w) : w \in {tasks[i].worker_id : i \in LiveTasks} \ {NULL}}

\* the total of tasks_completed over the first n entries of the worker list
CompletedByWorkers(n) ==
    LET g[k \in 0..n] ==
            IF k = 0 THEN 0 ELSE result.agents[k].tasks_completed + g[k - 1]
    IN  g[n]

\* C21: once the worker section has run, the worker list has exactly one
\* entry for each distinct non-null worker_id of the non-deleted tasks,
\* agent_count is its length, its entries are in non-increasing order of
\* total_cost_usd, and their tasks_completed add up to at most the
\* distribution's completed count, and to exactly that count when every
\* completed non-deleted task has a worker.
C21_OneEntryPerWorkerByCost ==
    PastAgents =>
        LET agents == result.agents IN
        /\ {agents[k].worker_id : k \in DOMAIN agents} = LiveWorkers
        /\ Len(agents) = Cardinality(LiveWorkers)
        /\ result.agent_count = Len(agents)
        /\ \A j, k \in DOMAIN agents :
              j < k => QLe(agents[k].total_cost_usd, agents[j].total_cost_usd)
        /\ CompletedByWorkers(Len(agents)) <= result.tasks.completed
        /\ (\A i \in CompletedTasks : ~IsNull(tasks[i].worker_id))
              => CompletedByWorkers(Len(agents)) = result.tasks.completed

\* worker 2 (cost 2) is listed before worker 1 (cost 1.5) beside a completed
\* task without worker
C21_CostlierWorkerFirst ==
    /\ pc = "done"
    /\ result.agent_count = 2
    /\ result.agents[1].worker_id = 2
    /\ result.agents[1].total_cost_usd = Q(2)
    /\ result.agents[2].worker_id = 1
    /\ result.agents[2].total_cost_usd = Norm(3, 2)
    /\ result.agents[2].tasks_completed = 2
    /\ result.tasks.completed = 3

---------------------------------------------------------------------------
(* The closing bound of open intervals: claim C27 *)

\* C27: within one extraction the working-time query and the blocked-time
\* query close the still-open intervals with one and the same 'now', also
\* when the clock advances between the two.
C27_OneNowPerExtraction ==
    (PastBlocked /\ ~IsNull(seq_table)) =>
        now_used.working = now_used.blocked

\* What holds instead: each of the two queries evaluates 'now' when it runs,
\* the blocked-time query no earlier than the working-time query.
OneNowPerQuery ==
    (PastBlocked /\ ~IsNull(seq_table)) =>
        /\ Val(now_used.working) <= Val(now_used.blocked)
        /\ Val(now_used.blocked) <= NowMs(clock)

\* the clock advanced by a second between the two queries: the open working
\* interval was closed at 10000 and the open assigned interval at 11000
TwoNowsInOneExtraction ==
    /\ pc = "done"
    /\ now_used.working = Some(10000)
    /\ now_used.blocked = Some(11000)
    /\ result.time.total_working_ms = 3000
    /\ result.time.total_blocked_ms = 3000

---------------------------------------------------------------------------
(* Minimum, median and maximum task time: claim C29 *)

\* every duration recorded on a non-deleted task is non-negative
NonNegativeDurations ==
    \A i \in LiveTasks :
        IsNull(tasks[i].time_actual_ms) \/ Val(tasks[i].time_actual_ms) >= 0

\* C29: once the median step has run, a store with a positive duration among
\* its non-deleted tasks has the smallest positive duration (never 0) as
\* min_task_time_ms and, when no duration is negative,
\* min <= median <= max; a store without a positive duration has min and
\* median 0.
C29_MinMedianMaxOrdered ==
    PastMedian =>
        LET tm == result.time IN
        IF Timed = {}
        THEN tm.min_task_time_ms = 0 /\ tm.median_task_time_ms = Zero
        ELSE /\ tm.min_task_time_ms = KthDuration(1)
             /\ tm.min_task_time_ms > 0
             /\ NonNegativeDurations =>
                    /\ QLe(Q(tm.min_task_time_ms), tm.median_task_time_ms)
                    /\ QLe(tm.median_task_time_ms, Q(tm.max_task_time_ms))

\* a task of duration 0 beside tasks of 10 and 40: min 10, median 25, max 40
C29_ZeroDurationNotTheMinimum ==
    /\ pc = "done"
    /\ NonNegativeDurations
    /\ \E i \in LiveTasks : tasks[i].time_actual_ms = Some(0)
    /\ result.time.min_task_time_ms = 10
    /\ result.time.median_task_time_ms = Q(25)
    /\ result.time.max_task_time_ms = 40

\* only a zero and a null duration: min and median 0
C29_NoPositiveDurationAllZero ==
    /\ pc = "done"
    /\ Len(tasks) = 2
    /\ Timed = {}
    /\ result.time.min_task_time_ms = 0
    /\ result.time.median_task_time_ms = Zero

---------------------------------------------------------------------------
(* The schema adapter: claim C28 *)

\* the shapes an interval table is stored in: with a status column, with an
\* event column, with both (holding different labels), and with neither
Shapes == {"status", "event", "both", "neither"}

\* the intervals held by table name: task_sequence has two working intervals
\* of task 1 and a pending one of task 2, task_state_sequence a working
\* interval of task 2 and a pending one of task 3
SchemaIntervals(name) ==
    IF name = "task_sequence"
    THEN <<Interval(1, "working", 2000, Some(5000)),
           Interval(1, "working", 6000, Some(7000)),
           Interval(2, "pending", 1000, Some(2000))>>
    ELSE <<Interval(2, "working", 1000, Some(3000)),
           Interval(3, "pending", 3000, Some(3500))>>

\* the label the second state column of a two-column table holds
OtherLabel(label) == IF label = "working" THEN "pending" ELSE "working"

\* table name stored in the given shape
ShapedTable(name, shape) ==
    LET intervals == SchemaIntervals(name) IN
    Some([cols |-> {"task_id", "timestamp", "end_timestamp"} \cup
                   (CASE shape = "status" -> {"status"}
                      [] shape = "event" -> {"event"}
                      [] shape = "both" -> {"status", "event"}
                      [] OTHER -> {}),
          rows |-> [i \in 1..Len(intervals) |->
            LET base == [task_id |-> intervals[i].task_id,
                         timestamp |-> intervals[i].timestamp,
                         end_timestamp |-> intervals[i].end_timestamp]
                status == [status |-> intervals[i].label]
                event == [event |-> intervals[i].label]
                other == [event |-> OtherLabel(intervals[i].label)]
            IN  CASE shape = "status" -> base @@ status
                  [] shape = "event" -> base @@ event
                  [] shape = "both" -> base @@ status @@ other
                  [] OTHER -> base]])

InitSchema ==
    /\ Idle
    /\ \/ MissingStore
       \/ /\ db_exists = TRUE
          /\ tasks \in {<<>>, SeqTasks(0)}
          /\ \E first, second \in Shapes \cup {"absent"} :
                tables = [name \in Range(SeqCandidates) |->
                    LET shape == IF name = "task_sequence" THEN first
                                 ELSE second
                    IN  IF shape = "absent" THEN NULL
                        ELSE ShapedTable(name, shape)]

\* extract_metrics over stores that hold none, one or both of the interval
\* tables, each in any of the shapes
SpecSchema == InitSchema /\ [][NextExtract]_vars

Present(name) == ~IsNull(tables[name])

\* the table to be used: task_sequence when it exists, else
\* task_state_sequence
ExpectedTable ==
    IF Present("task_sequence") THEN "task_sequence" ELSE "task_state_sequence"

\* the state column to be used: status when the table has it, else event
ExpectedCol ==
    IF "status" \in Val(tables[ExpectedTable]).cols THEN "status" ELSE "event"

\* the working intervals of the expected table under the expected column
ExpectedWorking ==
    LET rows == Val(tables[ExpectedTable]).rows IN
    {i \in DOMAIN rows : rows[i][ExpectedCol] = "working"}

\* their total length (all of them closed)
ExpectedWorkingMs ==
    LET rows == Val(tables[ExpectedTable]).rows
        g[T \in SUBSET ExpectedWorking] ==
            IF T = {} THEN 0
            ELSE LET i == CHOOSE j \in T : TRUE
                 IN  Val(rows[i].end_timestamp) - rows[i].timestamp + g[T \ {i}]
    IN  g[ExpectedWorking]

\* the tasks with more than one of them
ExpectedReworked ==
    LET rows == Val(tables[ExpectedTable]).rows IN
    {t \in {rows[i].task_id : i \in ExpectedWorking} :
        Cardinality({i \in ExpectedWorking : rows[i].task_id = t}) > 1}

Resolved == pc \notin {"start", "exit"}

\* C28: the resolved interval table is absent exactly when neither
\* task_sequence nor task_state_sequence exists, is an existing table
\* otherwise, and is task_sequence when both exist; the time group (working
\* time) and the quality group (rework count) are both computed from that
\* table under the state column status if the table has it and event
\* otherwise.
C28_AdapterResolvesOnePair ==
    Resolved =>
        /\ IsNull(seq_table) <=>
                ~Present("task_sequence") /\ ~Present("task_state_sequence")
        /\ ~IsNull(seq_table) => Present(Val(seq_table))
        /\ Present("task_sequence") /\ Present("task_state_sequence") =>
                seq_table = Some("task_sequence")
        /\ ~IsNull(seq_table) /\ PastBlocked =>
                result.time.total_working_ms = ExpectedWorkingMs
        /\ ~IsNull(seq_table) /\ PastQuality =>
                result.quality.rework_count = Cardinality(ExpectedReworked)

\* both tables exist, task_sequence with an event column only: the working
\* time 4000 and the reworked task are those of task_sequence
C28_BothTablesEventColumn ==
    /\ pc = "done"
    /\ Present("task_sequence") /\ Present("task_state_sequence")
    /\ "status" \notin Val(tables["task_sequence"]).cols
    /\ "status" \in Val(tables["task_state_sequence"]).cols
    /\ seq_table = Some("task_sequence")
    /\ result.time.total_working_ms = 4000
    /\ result.quality.rework_count = 1

\* only task_state_sequence exists, with both columns: status is used
C28_OnlySecondTableBothColumns ==
    /\ pc = "done"
    /\ ~Present("task_sequence") /\ Present("task_state_sequence")
    /\ {"status", "event"} \subseteq Val(tables["task_state_sequence"]).cols
    /\ seq_table = Some("task_state_sequence")
    /\ result.time.total_working_ms = 2000
    /\ result.time.total_blocked_ms = 500

\* neither table exists
C28_Absent ==
    /\ pc = "done"
    /\ seq_table = NULL
    /\ tables = NoTables

---------------------------------------------------------------------------
(* main: label resolution (lines 1041-1059) *)

MaxPaths == 3

\* a database path: the directories leading to the file, and the file name
\* split at its last dot
DatasetPath(dirs, stem, suffix) ==
    [dirs |-> dirs, stem |-> stem, suffix |-> suffix]

\* Path(db).stem: the file name without its last suffix
PathStem(db) == db.stem

\* Path(db).parent.name: the last directory of the path, "" when the path
\* is a bare file name
ParentName(db) == IF db.dirs = <<>> THEN "" ELSE db.dirs[Len(db.dirs)]

\* the paths given on the command line: bare names, names under a or b, and
\* names under b/a, with the stems t and u
DatasetPaths ==
    {DatasetPath(dirs, stem, ".db") :
        dirs \in {<<>>, <<"a">>, <<"b">>, <<"b", "a">>}, stem \in {"t", "u"}}

\* --labels after split(",") and strip(), None when the option is not given
SuppliedLabels == {NULL} \cup {Some(SubSeq(RunLabels, 1, k)) : k \in 1..2}

\* main after parse_args (line 1039)
InitLabels ==
    /\ MissingStore
    /\ clock = 10
    /\ conn = "none"
    /\ fs = NoFiles
    /\ steps = <<>>
    /\ seq_table = NULL
    /\ result = ExperimentResults("run")
    /\ now_used = NoNow
    /\ results = <<>>
    /\ delta_rows = <<>>
    /\ ret = NULL
    /\ pc = "labels"
    /\ \E n \in 1..MaxPaths, supplied \in SuppliedLabels :
          \E databases \in [1..n -> DatasetPaths] :
              args = Some([databases |-> databases, supplied |-> supplied,
                           labels |-> <<>>, used |-> {}, i |-> 1])

\* lines 1042-1043: the supplied labels, one per database
LabelsSupplied ==
    /\ pc = "labels"
    /\ ~IsNull(Val(args).supplied)
    /\ Len(Val(Val(args).supplied)) = Len(Val(args).databases)
    /\ args' = Some([Val(args) EXCEPT !.labels = Val(Val(args).supplied)])
    /\ pc' = "labelled"
    /\ UNCHANGED <<db_exists, tasks, tables, clock, conn, seq_table, result,
                   now_used, results, delta_rows, ret, fs, steps>>

\* lines 1043-1048: the number of labels differs from that of the
\* databases, sys.exit(1)
LabelsMismatch ==
    /\ pc = "labels"
    /\ ~IsNull(Val(args).supplied)
    /\ Len(Val(Val(args).supplied)) # Len(Val(args).databases)
    /\ pc' = "usage_error"
    /\ UNCHANGED <<db_exists, tasks, tables, clock, conn, seq_table, result,
                   now_used, results, delta_rows, args, ret, fs, steps>>

\* lines 1052-1059: one iteration of the loop deriving a label from a path
DeriveLabel ==
    /\ pc = "labels"
    /\ IsNull(Val(args).supplied)
    /\ Val(args).i <= Len(Val(args).databases)
    /\ LET db == Val(args).databases[Val(args).i]
           stem == IF PathStem(db) \in Val(args).used
                   THEN ParentName(db) \o "/" \o PathStem(db)
                   ELSE PathStem(db)
       IN  args' = Some([Val(args) EXCEPT !.used = @ \cup {stem},
                                          !.labels = Append(@, stem),
                                          !.i = @ + 1])
    /\ UNCHANGED <<db_exists, tasks, tables, clock, pc, conn, seq_table,
                   result, now_used, results, delta_rows, ret, fs, steps>>

\* the loop of lines 1052-1059 has run over every database
LabelsDerived ==
    /\ pc = "labels"
    /\ IsNull(Val(args).supplied)
    /\ Val(args).i > Len(Val(args).databases)
    /\ pc' = "labelled"
    /\ UNCHANGED <<db_exists, tasks, tables, clock, conn, seq_table, result,
                   now_used, results, delta_rows, args, ret, fs, steps>>

NextLabels ==
    \/ LabelsSupplied
    \/ LabelsMismatch
    \/ DeriveLabel
    \/ LabelsDerived

\* the label resolution of main over lists of up to MaxPaths paths
SpecLabels == InitLabels /\ [][NextLabels]_vars

---------------------------------------------------------------------------
(* Default labels: claim C22 *)

DefaultLabelled == pc = "labelled" /\ IsNull(Val(args).supplied)

PairwiseDistinct(labels) ==
    \A j, k \in DOMAIN labels : j # k => labels[j] # labels[k]

\* C22: when no labels are supplied, the labels derived from the dataset
\* paths are pairwise distinct, for every list of paths.
C22_DefaultLabelsDistinct ==
    DefaultLabelled => PairwiseDistinct(Val(args).labels)

\* the positions whose path repeats the stem of an earlier position
Repeats ==
    LET dbs == Val(args).databases IN
    {k \in DOMAIN dbs : \E j \in 1..(k - 1) : dbs[j].stem = dbs[k].stem}

\* What holds instead: the derived labels are pairwise distinct exactly when
\* no two paths that repeat an earlier stem share both that stem and the
\* name of their parent directory; in particular for every list of two.
DefaultLabelsDistinctUnlessSameParent ==
    DefaultLabelled =>
        LET dbs == Val(args).databases IN
        /\ PairwiseDistinct(Val(args).labels) <=>
                \A j, k \in Repeats :
                    (j # k /\ dbs[j].stem = dbs[k].stem) =>
                        ParentName(dbs[j]) # ParentName(dbs[k])
        /\ Len(dbs) <= 2 => PairwiseDistinct(Val(args).labels)

\* t.db, a/t.db and b/a/t.db are labelled t, a/t and a/t
SameLabelTwice ==
    /\ DefaultLabelled
    /\ Val(args).databases = <<DatasetPath(<<>>, "t", ".db"),
                               DatasetPath(<<"a">>, "t", ".db"),
                               DatasetPath(<<"b", "a">>, "t", ".db")>>
    /\ Val(args).labels = <<"t", "a/t", "a/t">>

---------------------------------------------------------------------------
(* run_experiment.py: reset, import, export, completion *)

\* db_path and its sidecar files, in the order reset_database removes them
FilesToRemove == <<"db", "db-shm", "db-wal", "db-journal">>

\* Path.exists() of one of them
PathExists(f, exists, files) == IF f = "db" THEN exists ELSE f \in files

\* lines 140-168: unlink the files that exist, in order; the first unlink
\* that raises OSError ends the reset with False, the files removed before
\* it stay removed
reset_database(exists, files, locked) ==
    LET g[k \in 0..Len(FilesToRemove)] ==
            IF k = 0 THEN [ok |-> TRUE, removed |-> {}]
            ELSE LET f == FilesToRemove[k] IN
                 IF ~g[k - 1].ok \/ ~PathExists(f, exists, files)
                 THEN g[k - 1]
                 ELSE IF f \in locked THEN [g[k - 1] EXCEPT !.ok = FALSE]
                 ELSE [g[k - 1] EXCEPT !.removed = @ \cup {f}]
    IN  g[Len(FilesToRemove)]

\* run_cli (lines 111-133): the binary exits with 0, exits with another code,
\* or subprocess.run raises (binary not found, 120 s timeout)
CliOutcomes == {"ok", "failed", "raised"}

\* lines 171-192: False without running the binary when the template file is
\* missing, else what the binary does
import_template(template_exists, cli) ==
    IF ~template_exists THEN "failed" ELSE cli

\* the tasks a template holds
TemplateTasks == WithIds(<<Task, Task>>)

\* the files export_metrics writes into output_dir from a store with the
\* full schema
MetricsFiles(output_dir) ==
    {output_dir \o "/" \o name :
        name \in {"tasks.json", "summary.json", "agents.json",
                  "transitions.json", "timeline.csv", "dependencies.json"}}

\* the directory dir as far as mkdir(parents=True, exist_ok=True) creates it
Mkdir(dir, files) == {dir} \ files

\* lines 208-383: False when the store is missing; else the output directory
\* is created and the files are written, up to the first query that raises
export_metrics(exists, readable, output_dir, files) ==
    IF ~exists THEN [ok |-> FALSE, writes |-> {}]
    ELSE IF ~readable THEN [ok |-> FALSE, writes |-> Mkdir(output_dir, files)]
    ELSE [ok |-> TRUE,
          writes |-> Mkdir(output_dir, files) \cup MetricsFiles(output_dir)]

\* lines 195-205: the parent directory is created, then the binary writes
\* the snapshot
export_snapshot(cli, output_dir, files) ==
    [ok |-> cli = "ok",
     writes |-> Mkdir(output_dir, files) \cup
                (IF cli = "ok" THEN {output_dir \o "/snapshot.json"} ELSE {})]

\* the terminal statuses of check_completion
TerminalStatuses == {"completed", "cancelled", "failed"}

\* check_completion reporting a store without tasks complete
CheckCompletionVacuous(exists, readable, rows) ==
    IF ~exists THEN [complete |-> FALSE, error |-> Some("Database not found")]
    ELSE IF ~readable THEN [complete |-> FALSE, error |-> Some("query")]
    ELSE LET live == Live(rows)
             total == Len(live)
             terminal == Len(SelectSeq(live,
                            LAMBDA t : t.status \in TerminalStatuses))
         IN  [complete |-> total - terminal = 0,
              error |-> NULL,
              total |-> total,
              terminal |-> terminal,
              non_terminal |-> total - terminal]

\* lines 468-501: an error when the file is missing or the query raises,
\* else the counts of the non-deleted tasks
check_completion(exists, readable, rows) ==
    IF ~exists THEN [complete |-> FALSE, error |-> Some("Database not found")]
    ELSE IF ~readable THEN [complete |-> FALSE, error |-> Some("query")]
    ELSE LET live == Live(rows)
             total == Len(live)
             terminal == Len(SelectSeq(live,
                            LAMBDA t : t.status \in TerminalStatuses))
             non_terminal == total - terminal
         IN  [complete |-> non_terminal = 0 /\ total > 0,
              error |-> NULL,
              total |-> total,
              terminal |-> terminal,
              non_terminal |-> non_terminal]

\* lines 399-427: the worker ids of the agents, by workflow and position
WorkerId(workflow, i) ==
    CASE workflow = "hierarchical" /\ i = 1 -> <<"lead">>
      [] workflow = "hierarchical" -> <<"worker", i>>
      [] workflow = "push" /\ i = 1 -> <<"coordinator">>
      [] workflow = "push" -> <<"worker", i - 1>>
      [] workflow = "swarm" -> <<"swarm", i>>
      [] workflow = "relay" -> <<"relay", i>>
      [] OTHER -> <<"agent", i>>

\* lines 386-465
generate_agent_commands(num_agents, workflow) ==
    [i \in 1..num_agents |->
        [agent_num |-> i, worker_id |-> WorkerId(workflow, i),
         workflow |-> workflow]]

---------------------------------------------------------------------------
(* run_experiment.py: main *)

\* a step main has carried out: the operation, whether it succeeded, and the
\* paths it created, wrote or removed
Step(op, ok, writes) == [op |-> op, ok |-> ok, writes |-> writes]

\* lines 685-688
Valid ==
    /\ ~(Val(args).export_only /\ IsNull(Val(args).output))
    /\ ~(Val(args).import_only /\ IsNull(Val(args).template))

\* lines 685-688: parser.error exits with status 2
RunUsageError ==
    /\ pc = "run"
    /\ ~Valid
    /\ ret' = Some(2)
    /\ pc' = "usage_error"
    /\ UNCHANGED <<db_exists, tasks, tables, clock, conn, seq_table, result,
                   now_used, results, delta_rows, args, fs, steps>>

\* export_metrics followed, with --snapshot, by export_snapshot: the steps
\* carried out
ExportSteps(cli) ==
    LET output == Val(Val(args).output)
        em == export_metrics(db_exists, fs.readable, output, fs.files)
        sn == export_snapshot(cli, output, fs.files \cup em.writes)
    IN  <<Step("export", em.ok, em.writes)>> \o
        (IF Val(args).snapshot
         THEN <<Step("snapshot", sn.ok, sn.writes)>> ELSE <<>>)

\* the paths a sequence of steps created or wrote
WritesOf(ss) == UNION {ss[k].writes : k \in DOMAIN ss}

\* lines 695-701: --export-only
ExportOnly ==
    /\ pc = "run"
    /\ Valid
    /\ Val(args).export_only
    /\ \E cli \in CliOutcomes :
        LET ss == ExportSteps(cli) IN
        /\ steps' = steps \o ss
        /\ fs' = [fs EXCEPT !.files = @ \cup WritesOf(ss)]
        /\ IF Val(args).snapshot /\ cli = "raised"
           THEN ret' = Some(1) /\ pc' = "raised"
           ELSE ret' = Some(IF ss[1].ok THEN 0 ELSE 1) /\ pc' = "returned"
    /\ UNCHANGED <<db_exists, tasks, tables, clock, conn, seq_table, result,
                   now_used, results, delta_rows, args>>

\* the store and the files after reset_database, r its outcome
AfterReset(r) ==
    /\ db_exists' = (db_exists /\ "db" \notin r.removed)
    /\ tasks' = IF "db" \in r.removed THEN <<>> ELSE tasks
    /\ fs' = [fs EXCEPT !.files = @ \ r.removed]
    /\ steps' = Append(steps, Step("reset", r.ok, r.removed))

\* lines 706-712: --reset-only
ResetOnly ==
    /\ pc = "run"
    /\ Valid
    /\ ~Val(args).export_only
    /\ Val(args).reset_only
    /\ IF Val(args).dry_run
       THEN /\ ret' = Some(0)
            /\ UNCHANGED <<db_exists, tasks, fs, steps>>
       ELSE LET r == reset_database(db_exists, fs.files, fs.locked) IN
            /\ AfterReset(r)
            /\ ret' = Some(IF r.ok THEN 0 ELSE 1)
    /\ pc' = "returned"
    /\ UNCHANGED <<tables, clock, conn, seq_table, result, now_used, results,
                   delta_rows, args>>

\* the store and the files after import_template with outcome o
AfterImport(o) ==
    /\ steps' = Append(steps, Step("import", o = "ok",
                                   IF o = "ok" THEN {"db"} ELSE {}))
    /\ IF o = "ok"
       THEN /\ db_exists' = TRUE
            /\ tasks' = TemplateTasks
            /\ fs' = [fs EXCEPT !.readable = TRUE]
       ELSE UNCHANGED <<db_exists, tasks, fs>>

\* lines 717-723: --import-only
ImportOnly ==
    /\ pc = "run"
    /\ Valid
    /\ ~Val(args).export_only
    /\ ~Val(args).reset_only
    /\ Val(args).import_only
    /\ IF Val(args).dry_run
       THEN /\ ret' = Some(0)
            /\ pc' = "returned"
            /\ UNCHANGED <<db_exists, tasks, fs, steps>>
       ELSE \E cli \in CliOutcomes :
            LET o == import_template(Val(Val(args).template) \in fs.files,
                                     cli)
            IN  /\ AfterImport(o)
                /\ ret' = Some(IF o = "ok" THEN 0 ELSE 1)
                /\ pc' = IF o = "raised" THEN "raised" ELSE "returned"
    /\ UNCHANGED <<tables, clock, conn, seq_table, result, now_used, results,
                   delta_rows, args>>

\* none of the three mode flags tested before --wait is set
NoEarlierMode ==
    /\ ~Val(args).export_only
    /\ ~Val(args).reset_only
    /\ ~Val(args).import_only

\* lines 728-734 and 516-520: --wait, wait_for_completion is entered
WaitCall ==
    /\ pc = "run"
    /\ Valid
    /\ NoEarlierMode
    /\ Val(args).wait
    /\ result' = [start |-> clock, completed |-> FALSE]
    /\ pc' = "polling"
    /\ UNCHANGED <<db_exists, tasks, tables, clock, conn, seq_table,
                   now_used, results, delta_rows, args, ret, fs, steps>>

MaxClock == 14

\* time.sleep(poll_interval): the clock after it
Slept == IF clock + Val(args).poll_interval > MaxClock THEN MaxClock
         ELSE clock + Val(args).poll_interval

\* lines 522-548: one iteration of the polling loop
Poll ==
    /\ pc = "polling"
    /\ LET status == check_completion(db_exists, fs.readable, tasks)
           elapsed == clock - result.start
           timeout == Val(args).timeout
       IN  IF ~IsNull(status.error)
           THEN clock' = Slept /\ UNCHANGED <<pc, result>>
           ELSE IF status.complete
           THEN /\ result' = [result EXCEPT !.completed = TRUE]
                /\ pc' = "waited"
                /\ UNCHANGED clock
           ELSE IF timeout > 0 /\ elapsed >= timeout
           THEN pc' = "waited" /\ UNCHANGED <<clock, result>>
           ELSE clock' = Slept /\ UNCHANGED <<pc, result>>
    /\ UNCHANGED <<db_exists, tasks, tables, conn, seq_table, now_used,
                   results, delta_rows, args, ret, fs, steps>>

MaxWaitTasks == 2

\* tasks by status: the three terminal statuses, pending, working, a status
\* check_completion does not know, and a soft-deleted pending task
WaitKinds ==
    <<[Task EXCEPT !.status = "completed"],
      [Task EXCEPT !.status = "cancelled"],
      [Task EXCEPT !.status = "failed"],
      [Task EXCEPT !.status = "pending"],
      [Task EXCEPT !.status = "working"],
      [Task EXCEPT !.status = "paused"],
      [Task EXCEPT !.status = "pending", !.deleted_at = Some(5000)]>>

WaitStores == {WithIds(rows) : rows \in TablesOf(WaitKinds, MaxWaitTasks)}

\* line 547, while wait_for_completion sleeps: the agents and the server
\* work on the store, which may be created, replaced or removed
AgentsAct ==
    /\ pc = "polling"
    /\ \/ /\ db_exists' = FALSE
          /\ tasks' = <<>>
          /\ fs' = [fs EXCEPT !.readable = TRUE]
       \/ /\ db_exists' = TRUE
          /\ tasks' \in WaitStores
          /\ \E readable \in BOOLEAN : fs' = [fs EXCEPT !.readable = readable]
    /\ UNCHANGED <<tables, clock, pc, conn, seq_table, result, now_used,
                   results, delta_rows, args, ret, steps>>

\* lines 735-739: wait_for_completion has returned
WaitExport ==
    /\ pc = "waited"
    /\ \E cli \in CliOutcomes :
        LET ss == IF result.completed /\ ~IsNull(Val(args).output)
                  THEN ExportSteps(cli) ELSE <<>>
        IN  /\ steps' = steps \o ss
            /\ fs' = [fs EXCEPT !.files = @ \cup WritesOf(ss)]
            /\ IF ss # <<>> /\ Val(args).snapshot /\ cli = "raised"
               THEN ret' = Some(1) /\ pc' = "raised"
               ELSE /\ ret' = Some(IF result.completed THEN 0 ELSE 1)
                    /\ pc' = "returned"
    /\ UNCHANGED <<db_exists, tasks, tables, clock, conn, seq_table, result,
                   now_used, results, delta_rows, args>>

\* none of the four mode flags is set: full experiment setup
FullSetup == NoEarlierMode /\ ~Val(args).wait

\* FullReset going on to the import after a failed reset
FullResetContinues ==
    /\ pc = "run"
    /\ Valid
    /\ FullSetup
    /\ IF ~Val(args).no_reset /\ ~Val(args).dry_run
       THEN AfterReset(reset_database(db_exists, fs.files, fs.locked))
       ELSE UNCHANGED <<db_exists, tasks, fs, steps>>
    /\ pc' = "import"
    /\ UNCHANGED <<tables, clock, conn, seq_table, result, now_used, results,
                   delta_rows, args, ret>>

\* lines 753-759: step 1
FullReset ==
    /\ pc = "run"
    /\ Valid
    /\ FullSetup
    /\ IF ~Val(args).no_reset /\ ~Val(args).dry_run
       THEN LET r == reset_database(db_exists, fs.files, fs.locked) IN
            /\ AfterReset(r)
            /\ IF r.ok THEN pc' = "import" /\ UNCHANGED ret
               ELSE pc' = "returned" /\ ret' = Some(1)
       ELSE /\ pc' = "import"
            /\ UNCHANGED <<db_exists, tasks, fs, steps, ret>>
    /\ UNCHANGED <<tables, clock, conn, seq_table, result, now_used, results,
                   delta_rows, args>>

\* lines 762-771: step 2
FullImport ==
    /\ pc = "import"
    /\ IF ~IsNull(Val(args).template) /\ ~Val(args).dry_run
       THEN \E cli \in CliOutcomes :
            LET o == import_template(Val(Val(args).template) \in fs.files,
                                     cli)
            IN  /\ AfterImport(o)
                /\ IF o = "ok" THEN pc' = "commands" /\ UNCHANGED ret
                   ELSE /\ ret' = Some(1)
                        /\ pc' = IF o = "raised" THEN "raised" ELSE "returned"
       ELSE /\ pc' = "commands"
            /\ UNCHANGED <<db_exists, tasks, fs, steps, ret>>
    /\ UNCHANGED <<tables, clock, conn, seq_table, result, now_used, results,
                   delta_rows, args>>

\* lines 774-838: step 3, the agent commands are generated and written to
\* --commands-file or printed, and experiment-config.json is written
FullCommands ==
    /\ pc = "commands"
    /\ LET a == Val(args)
           commands == generate_agent_commands(a.agents, a.workflow)
           written == IF IsNull(a.commands_file) THEN {}
                      ELSE {Val(a.commands_file)}
           config == IF ~IsNull(a.output) /\ ~a.dry_run
                     THEN <<Step("config", TRUE,
                                 Mkdir(Val(a.output), fs.files) \cup
                                 {Val(a.output) \o "/experiment-config.json"})>>
                     ELSE <<>>
           ss == <<[Step("commands", TRUE, written) EXCEPT
                        !.ok = Len(commands) = a.agents]>> \o config
       IN  /\ steps' = steps \o ss
           /\ fs' = [fs EXCEPT !.files = @ \cup WritesOf(ss)]
    /\ ret' = Some(0)
    /\ pc' = "returned"
    /\ UNCHANGED <<db_exists, tasks, tables, clock, conn, seq_table, result,
                   now_used, results, delta_rows, args>>

NextRun ==
    \/ RunUsageError
    \/ ExportOnly
    \/ ResetOnly
    \/ ImportOnly
    \/ WaitCall
    \/ Poll
    \/ AgentsAct
    \/ WaitExport
    \/ FullReset
    \/ FullImport
    \/ FullCommands

\* POLL_INTERVAL_SECONDS
DefaultPoll == 10

\* the command line without any option: the argparse defaults
DefaultArgs ==
    [export_only |-> FALSE,
     reset_only |-> FALSE,
     import_only |-> FALSE,
     wait |-> FALSE,
     dry_run |-> FALSE,
     no_reset |-> FALSE,
     template |-> NULL,
     output |-> NULL,
     commands_file |-> NULL,
     snapshot |-> FALSE,
     timeout |-> 0,
     poll_interval |-> DefaultPoll,
     workflow |-> "hierarchical",
     agents |-> 3]

\* the files beside the store: sidecar files, some of them not removable,
\* and the template
RunFiles ==
    {[files |-> sidecars \cup template, locked |-> locked, readable |-> TRUE] :
        sidecars \in {{}, {"db-wal"}, {"db-shm", "db-wal", "db-journal"}},
        template \in {{}, {"template"}},
        locked \in {{}, {"db"}, {"db-wal"}}}

\* what every run starts from
RunIdle ==
    /\ tables = NoTables
    /\ clock = 10
    /\ pc = "run"
    /\ conn = "none"
    /\ seq_table = NULL
    /\ result = [start |-> 0, completed |-> FALSE]
    /\ now_used = NoNow
    /\ results = <<>>
    /\ delta_rows = <<>>
    /\ ret = NULL
    /\ steps = <<>>

\* the store of a run that does not wait: missing, or holding a completed
\* and a pending task
RunStore ==
    \/ db_exists = FALSE /\ tasks = <<>>
    \/ db_exists = TRUE /\ tasks = WithIds(<<WaitKinds[1], WaitKinds[4]>>)

\* main entered in --wait mode
InitWait ==
    /\ RunIdle
    /\ \/ db_exists = FALSE /\ tasks = <<>>
       \/ db_exists = TRUE /\ tasks \in WaitStores
    /\ fs \in {[NoFiles EXCEPT !.readable = r] : r \in BOOLEAN}
    /\ \E dry_run \in BOOLEAN, output \in {NULL, Some("out")},
          timeout \in {0, 2, 3}, poll_interval \in {1, 2} :
        args = Some([DefaultArgs EXCEPT !.wait = TRUE,
                                        !.dry_run = dry_run,
                                        !.output = output,
                                        !.timeout = timeout,
                                        !.poll_interval = poll_interval])

\* main entered in one of the other modes
InitSetup ==
    /\ RunIdle
    /\ RunStore
    /\ \/ /\ fs \in RunFiles
          /\ \E dry_run, no_reset \in BOOLEAN,
                template \in {NULL, Some("template")},
                output \in {NULL, Some("out")},
                commands_file \in {NULL, Some("commands.sh")} :
              args = Some([DefaultArgs EXCEPT !.dry_run = dry_run,
                                              !.no_reset = no_reset,
                                              !.template = template,
                                              !.output = output,
                                              !.commands_file = commands_file])
       \/ /\ fs \in RunFiles
          /\ \E dry_run \in BOOLEAN :
              args = Some([DefaultArgs EXCEPT !.reset_only = TRUE,
                                              !.dry_run = dry_run])
       \/ /\ fs \in RunFiles
          /\ \E dry_run \in BOOLEAN, template \in {NULL, Some("template")} :
              args = Some([DefaultArgs EXCEPT !.import_only = TRUE,
                                              !.dry_run = dry_run,
                                              !.template = template])
       \/ /\ fs \in {[NoFiles EXCEPT !.readable = r] : r \in BOOLEAN}
          /\ \E dry_run, snapshot \in BOOLEAN, output \in {NULL, Some("out")} :
              args = Some([DefaultArgs EXCEPT !.export_only = TRUE,
                                              !.dry_run = dry_run,
                                              !.snapshot = snapshot,
                                              !.output = output])

InitRun == InitWait \/ InitSetup

\* run_experiment's main in every mode
SpecRun == InitRun /\ [][NextRun]_vars

\* the same with the polling loop running on: wait_for_completion is the
\* only thread of the program, so an iteration that can run does run
SpecRunLive == SpecRun /\ WF_vars(Poll)

---------------------------------------------------------------------------
(* Waiting with a timeout: claim C23 *)

Waiting == pc = "polling"

\* the store check_completion cannot read: the file is missing or the query
\* raises
Erroring == ~db_exists \/ ~fs.readable

\* C23: wait_for_completion called with timeout > 0 returns, whatever
\* happens to the store, also when every poll reports an error.
C23_WaitWithTimeoutReturns ==
    (Waiting /\ Val(args).timeout > 0) ~> ~Waiting

\* What holds instead: with timeout > 0 the wait returns once the store stops
\* reporting errors.
WaitReturnsUnlessErroring ==
    (<>[]~Erroring) => ((Waiting /\ Val(args).timeout > 0) ~> ~Waiting)

\* it returns False only with the timeout reached, and True only with
\* timeout seconds or less slept beyond the deadline
WaitResultFollowsTimeout ==
    (pc = "waited" /\ ~result.completed) =>
        /\ Val(args).timeout > 0
        /\ clock - result.start >= Val(args).timeout

\* the store is missing and the wait is still polling after the timeout
PollingPastTimeout ==
    /\ Waiting
    /\ ~db_exists
    /\ Val(args).timeout = 2
    /\ clock - result.start > Val(args).timeout

---------------------------------------------------------------------------
(* What counts as complete: claim C24 *)

\* the store holds a non-deleted task and every non-deleted task is
\* completed, cancelled or failed
AllTerminal ==
    /\ db_exists
    /\ \E i \in DOMAIN tasks : IsNull(tasks[i].deleted_at)
    /\ \A i \in DOMAIN tasks :
          IsNull(tasks[i].deleted_at) =>
              tasks[i].status \in {"completed", "cancelled", "failed"}

Exported == \E k \in DOMAIN steps : steps[k].op \in {"export", "snapshot"}

\* C24: wait_for_completion turns to True only in a poll of a store with at
\* least one non-deleted task, all non-deleted tasks terminal; and in --wait
\* mode nothing is exported unless it returned True.
C24_TrueOnlyAfterAllTerminal ==
    /\ [][(~result.completed /\ result'.completed) => AllTerminal]_vars
    /\ []((Val(args).wait /\ Exported) => result.completed)

\* a completed task beside a soft-deleted pending one: reported complete and
\* exported
C24_CompleteDespiteDeletedPending ==
    /\ pc = "returned"
    /\ Val(args).wait
    /\ result.completed
    /\ Exported
    /\ ret = Some(0)
    /\ Len(tasks) = 2
    /\ tasks[1].status = "completed"
    /\ tasks[2].status = "pending" /\ ~IsNull(tasks[2].deleted_at)

\* a store without tasks is polled until the timeout
C24_EmptyStoreTimedOut ==
    /\ pc = "returned"
    /\ Val(args).wait
    /\ db_exists /\ fs.readable /\ tasks = <<>>
    /\ ~result.completed
    /\ ~Exported
    /\ ret = Some(1)

---------------------------------------------------------------------------
(* --dry-run: claim C25 *)

\* C25: with --dry-run no step of main, in any mode, creates, writes or
\* removes a path: no database file is deleted, no import is run, no file or
\* directory is created.
C25_DryRunModifiesNothing ==
    Val(args).dry_run => \A k \in DOMAIN steps : steps[k].writes = {}

\* What holds instead: with --dry-run no reset and no import is run and no
\* experiment-config.json is written, and --reset-only, --import-only and a
\* full setup without --commands-file modify nothing.
DryRunSparesTheStore ==
    Val(args).dry_run =>
        /\ \A k \in DOMAIN steps :
              steps[k].op \notin {"reset", "import", "config"}
        /\ (\/ Val(args).reset_only
            \/ Val(args).import_only
            \/ FullSetup /\ IsNull(Val(args).commands_file)) =>
                WritesOf(steps) = {}

\* --dry-run --export-only --output out has written the metrics files
DryRunExportWritten ==
    /\ pc = "returned"
    /\ Val(args).dry_run /\ Val(args).export_only
    /\ {"out", "out/summary.json"} \subseteq fs.files

\* --dry-run --commands-file commands.sh has written the commands file
DryRunCommandsFileWritten ==
    /\ pc = "returned"
    /\ Val(args).dry_run /\ FullSetup
    /\ "commands.sh" \in fs.files
    /\ steps = <<Step("commands", TRUE, {"commands.sh"})>>

\* --dry-run --wait --output out has exported after completion
DryRunWaitExported ==
    /\ pc = "returned"
    /\ Val(args).dry_run /\ Val(args).wait
    /\ "out/tasks.json" \in fs.files

---------------------------------------------------------------------------
(* The order of the full setup: claim C30 *)

\* the positions of the steps with operation op
StepsOf(op) == {k \in DOMAIN steps : steps[k].op = op}

\* C30: in a full setup without --dry-run the steps are carried out in the
\* order reset, import, commands, config; an import only after a successful
\* reset or with --no-reset; commands and experiment-config.json only after a
\* successful import or without template; and a failed reset or import is
\* the last step, the program ending with status 1.
C30_ResetImportCommandsInOrder ==
    (FullSetup /\ ~Val(args).dry_run) =>
        /\ \A j, k \in DOMAIN steps :
              j < k =>
                  <<steps[j].op, steps[k].op>> \in
                      {<<"reset", "import">>, <<"reset", "commands">>,
                       <<"reset", "config">>, <<"import", "commands">>,
                       <<"import", "config">>, <<"commands", "config">>}
        /\ \A k \in StepsOf("import") :
              IF Val(args).no_reset THEN StepsOf("reset") = {}
              ELSE \E j \in StepsOf("reset") : j < k /\ steps[j].ok
        /\ \A k \in StepsOf("commands") \cup StepsOf("config") :
              IF IsNull(Val(args).template) THEN StepsOf("import") = {}
              ELSE \E j \in StepsOf("import") : j < k /\ steps[j].ok
        /\ \A k \in StepsOf("reset") \cup StepsOf("import") :
              ~steps[k].ok =>
                  /\ k = Len(steps)
                  /\ pc \in {"returned", "raised"}
                  /\ ret = Some(1)
        /\ pc = "commands" =>
              Val(args).no_reset \/ StepsOf("reset") # {}
        /\ (pc = "returned" /\ ret = Some(0)) => StepsOf("commands") # {}

\* reset, import, commands and config, in this order
C30_AllFourSteps ==
    /\ pc = "returned"
    /\ ret = Some(0)
    /\ FullSetup /\ ~Val(args).dry_run
    /\ [k \in DOMAIN steps |-> steps[k].op] =
            <<"reset", "import", "commands", "config">>
    /\ steps[1].writes = {"db", "db-wal"}

\* the sidecar file cannot be removed: the reset fails after removing the
\* database file, and nothing follows
C30_FailedResetEnds ==
    /\ pc = "returned"
    /\ ret = Some(1)
    /\ FullSetup /\ ~Val(args).dry_run
    /\ steps = <<Step("reset", FALSE, {"db"})>>
    /\ ~db_exists

\* the import fails after a successful reset, and nothing follows
C30_FailedImportEnds ==
    /\ pc = "returned"
    /\ ret = Some(1)
    /\ FullSetup /\ ~Val(args).dry_run
    /\ Len(steps) = 2
    /\ steps[1].op = "reset" /\ steps[1].ok
    /\ steps[2] = Step("import", FALSE, {})

---------------------------------------------------------------------------
(* install.py: the skills installer *)

\* the skills of the suite
SKILLS ==
    <<"task-graph-basics", "task-graph-coordinator", "task-graph-worker",
      "task-graph-reporting", "task-graph-migration", "task-graph-repair">>

\* a skill's source directory: complete, missing, without SKILL.md, or with
\* a SKILL.md that does not start with the frontmatter marker
SourceKinds == {"valid", "missing", "no_skill_md", "no_frontmatter"}

\* lines 57-71: the skills whose SKILL.md exists
list_skills(source) ==
    SelectSeq(SKILLS, LAMBDA skill :
        source[skill] \in {"valid", "no_frontmatter"})

\* lines 74-89
validate_skill(kind) ==
    CASE kind = "missing" ->
            [success |-> FALSE, message |-> "Skill directory not found"]
      [] kind = "no_skill_md" ->
            [success |-> FALSE, message |-> "SKILL.md not found"]
      [] kind = "no_frontmatter" ->
            [success |-> FALSE, message |-> "Missing frontmatter"]
      [] OTHER -> [success |-> TRUE, message |-> "Valid skill"]

\* the target directory: whether it exists, and the directories in it
Target(exists, dirs) == [exists |-> exists, dirs |-> dirs]

\* (target_dir / skill_name).exists(); the empty name is target_dir itself
DestExists(skill_name, target) ==
    target.exists /\ (skill_name = "" \/ skill_name \in target.dirs)

\* shutil.rmtree(target_dir / skill_name)
Rmtree(skill_name, target) ==
    IF skill_name = "" THEN Target(FALSE, {})
    ELSE [target EXCEPT !.dirs = @ \ {skill_name}]

\* install_skill creating the target directory before it looks at dry_run
InstallSkillMkdirFirst(skill_name, source, target, dry_run) ==
    LET validation == validate_skill(source[skill_name])
        made == [target EXCEPT !.exists = TRUE]
    IN  IF ~validation.success
        THEN [result |-> validation, target |-> target]
        ELSE IF dry_run
        THEN [result |-> [success |-> TRUE, message |-> "Would install"],
              target |-> made]
        ELSE [result |-> [success |-> TRUE, message |-> "Installed"],
              target |-> [made EXCEPT !.dirs = @ \cup {skill_name}]]

\* lines 92-128: the result, and the target directory afterwards
install_skill(skill_name, source, target, dry_run) ==
    LET validation == validate_skill(source[skill_name]) IN
    IF ~validation.success
    THEN [result |-> validation, target |-> target]
    ELSE IF dry_run
    THEN [result |-> [success |-> TRUE, message |-> "Would install"],
          target |-> target]
    ELSE [result |-> [success |-> TRUE, message |-> "Installed"],
          target |-> Target(TRUE, target.dirs \cup {skill_name})]

\* lines 131-142
uninstall_skill(skill_name, target, dry_run) ==
    IF ~DestExists(skill_name, target)
    THEN [result |-> [success |-> TRUE, message |-> "Not installed"],
          target |-> target]
    ELSE IF dry_run
    THEN [result |-> [success |-> TRUE, message |-> "Would remove"],
          target |-> target]
    ELSE [result |-> [success |-> TRUE, message |-> "Removed"],
          target |-> Rmtree(skill_name, target)]

\* to_install = skills if skills else SKILLS
Requested ==
    IF IsNull(Val(args).skills) \/ Val(Val(args).skills) = <<>> THEN SKILLS
    ELSE Val(Val(args).skills)

\* lines 257-264: --list
ListMode ==
    /\ pc = "install"
    /\ Val(args).list
    /\ results' = list_skills(fs.source)
    /\ ret' = Some(0)
    /\ pc' = "installed"
    /\ UNCHANGED <<db_exists, tasks, tables, clock, conn, seq_table, result,
                   now_used, delta_rows, args, fs, steps>>

\* lines 155-164: one iteration of the loop of install_all
InstallNext ==
    /\ pc = "install"
    /\ ~Val(args).list
    /\ ~Val(args).uninstall
    /\ Val(args).i <= Len(Requested)
    /\ LET skill == Requested[Val(args).i]
           r == IF skill \notin Range(SKILLS)
                THEN [result |-> [success |-> FALSE,
                                  message |-> "Unknown skill"],
                      target |-> fs.target]
                ELSE install_skill(skill, fs.source, fs.target,
                                   Val(args).dry_run)
       IN  /\ results' = Append(results, [skill |-> skill] @@ r.result)
           /\ fs' = [fs EXCEPT !.target = r.target]
    /\ args' = Some([Val(args) EXCEPT !.i = @ + 1])
    /\ UNCHANGED <<db_exists, tasks, tables, clock, pc, conn, seq_table,
                   result, now_used, delta_rows, ret, steps>>

\* lines 187-189: one iteration of the loop of uninstall_all
UninstallNext ==
    /\ pc = "install"
    /\ ~Val(args).list
    /\ Val(args).uninstall
    /\ Val(args).i <= Len(Requested)
    /\ LET skill == Requested[Val(args).i]
           r == uninstall_skill(skill, fs.target, Val(args).dry_run)
       IN  /\ results' = Append(results, [skill |-> skill] @@ r.result)
           /\ fs' = [fs EXCEPT !.target = r.target]
    /\ args' = Some([Val(args) EXCEPT !.i = @ + 1])
    /\ UNCHANGED <<db_exists, tasks, tables, clock, pc, conn, seq_table,
                   result, now_used, delta_rows, ret, steps>>

\* lines 166-175, 191-199 and 287: every skill handled, main returns 0 when
\* none failed
InstallReturn ==
    /\ pc = "install"
    /\ ~Val(args).list
    /\ Val(args).i > Len(Requested)
    /\ ret' = Some(IF \A k \in DOMAIN results : results[k].success
                   THEN 0 ELSE 1)
    /\ pc' = "installed"
    /\ UNCHANGED <<db_exists, tasks, tables, clock, conn, seq_table, result,
                   now_used, results, delta_rows, args, fs, steps>>

NextInstall ==
    \/ ListMode
    \/ InstallNext
    \/ UninstallNext
    \/ InstallReturn

MaxSkills == 2

\* the names --skills may carry: two skills of the suite, an unknown name and
\* the empty name
SkillNames == <<"task-graph-basics", "task-graph-worker", "bogus", "">>

\* --skills after split(",") and strip(): None, or up to MaxSkills names
SkillLists ==
    {NULL} \cup
    {Some(l) : l \in UNION {[1..n -> Range(SkillNames)] : n \in 1..MaxSkills}}

\* the source tree: task-graph-basics in any state, task-graph-worker
\* present or missing, the other skills complete
Sources ==
    {[skill \in Range(SKILLS) |->
        IF skill = "task-graph-basics" THEN basics
        ELSE IF skill = "task-graph-worker" THEN worker
        ELSE "valid"] :
        basics \in SourceKinds, worker \in {"valid", "missing"}}

\* the target tree: missing, empty, holding one skill, holding a skill and
\* a directory that is no skill
Targets ==
    {Target(FALSE, {}), Target(TRUE, {}),
     Target(TRUE, {"task-graph-basics"}),
     Target(TRUE, {"task-graph-basics", "bogus"})}

\* main after parse_args (line 254)
InitInstall ==
    /\ MissingStore
    /\ clock = 10
    /\ conn = "none"
    /\ seq_table = NULL
    /\ result = ExperimentResults("run")
    /\ now_used = NoNow
    /\ results = <<>>
    /\ delta_rows = <<>>
    /\ ret = NULL
    /\ steps = <<>>
    /\ pc = "install"
    /\ \E source \in Sources, target \in Targets :
          fs = [source |-> source, target |-> target]
    /\ \/ \E skills \in SkillLists, dry_run, uninstall \in BOOLEAN :
            args = Some([list |-> FALSE, skills |-> skills,
                         dry_run |-> dry_run, uninstall |-> uninstall,
                         i |-> 1])
       \/ args = Some([list |-> TRUE, skills |-> NULL, dry_run |-> FALSE,
                       uninstall |-> FALSE, i |-> 1])

\* the installer over source and target trees and skill selections
SpecInstall == InitInstall /\ [][NextInstall]_vars

---------------------------------------------------------------------------
(* The installer's dry run: claim C26 *)

\* whether a real run reports success for the skill
RealSuccess(skill) ==
    IF Val(args).uninstall THEN TRUE
    ELSE /\ skill \in Range(SKILLS)
         /\ fs.source[skill] = "valid"

\* C26: with dry_run set no step of install_all or uninstall_all changes the
\* target tree, whatever skills are requested, and every skill handled is
\* reported as succeeded or failed as a real run reports it, the unknown and
\* the invalid ones as failed by install_all.
C26_DryRunLeavesTargetAlone ==
    /\ [][Val(args).dry_run => fs'.target = fs.target]_vars
    /\ [](Val(args).dry_run =>
            \A k \in DOMAIN results :
                /\ results[k].success = RealSuccess(results[k].skill)
                /\ results[k].success =
                     (IF Val(args).uninstall
                      THEN uninstall_skill(results[k].skill, fs.target,
                                           FALSE).result.success
                      ELSE /\ results[k].skill \in Range(SKILLS)
                           /\ install_skill(results[k].skill, fs.source,
                                            fs.target, FALSE).result.success))

\* a dry-run installation of a skill without frontmatter and an unknown
\* skill into a target directory that does not exist: both reported failed,
\* status 1, the directory still missing
C26_DryRunReportsFailures ==
    /\ pc = "installed"
    /\ Val(args).dry_run /\ ~Val(args).uninstall
    /\ fs.target = Target(FALSE, {})
    /\ fs.source["task-graph-basics"] = "no_frontmatter"
    /\ Requested = <<"task-graph-basics", "bogus">>
    /\ [k \in DOMAIN results |-> results[k].success] = <<FALSE, FALSE>>
    /\ ret = Some(1)

\* a dry-run installation of every skill into a missing target directory
C26_DryRunInstallsNothing ==
    /\ pc = "installed"
    /\ Val(args).dry_run /\ ~Val(args).uninstall
    /\ IsNull(Val(args).skills)
    /\ Len(results) = Len(SKILLS)
    /\ ret = Some(0)
    /\ fs.target = Target(FALSE, {})

\* a dry-run removal of an installed skill and of the target directory
\* itself (the empty name)
C26_DryRunRemovesNothing ==
    /\ pc = "installed"
    /\ Val(args).dry_run /\ Val(args).uninstall
    /\ Requested = <<"task-graph-basics", "">>
    /\ fs.target = Target(TRUE, {"task-graph-basics", "bogus"})
    /\ [k \in DOMAIN results |-> results[k].message] =
            <<"Would remove", "Would remove">>

====
